---- MODULE Spec2Model ----
(***************************************************************************)
(* Verification model of the spatial-reasoning core of the sofa puzzle:    *)
(* the A* path search, the flood fill, the adjacency test and the          *)
(* critical-cell analysis of the pathfinding utilities, and the level      *)
(* generator.  A Position {x, y} is the pair <<x, y>>; a grid is a         *)
(* function from row index y (0-based) to a function from column index x   *)
(* to a cell tag, so grid[y][x] reads as in the source.                    *)
(***************************************************************************)
EXTENDS Integers, Sequences, FiniteSets, TLC

VARIABLES grid, doorPosition, call, ret, gen, home

vars == <<grid, doorPosition, call, ret, gen, home>>

(***************************************************************************)
(* Bounds of the explored inputs.                                          *)
(***************************************************************************)
\* every explored grid has at most MaxCells cells (all shapes w x h with
\* w * h <= MaxCells are explored)
MaxCells == 9
\* at most MaxBlocked cells of an explored grid are not empty
MaxBlocked == 3
\* the rooms handed to identifyCriticalPaths have at most MaxRoomCells cells,
\* one of them the door and at most MaxRoomBlocked others a wall or a piece
MaxRoomCells == 8
MaxRoomBlocked == 3
\* identifyCriticalPaths is called at most MaxCalls times in a row on a grid
MaxCalls == 2
\* the grids on which all four queries are explored together have at most
\* MaxFrameCells cells
MaxFrameCells == 6

(***************************************************************************)
(* Grid model (types/game.ts) and the helpers of the pathfinding module.   *)
(***************************************************************************)
SofaTags ==
  {"sofa-single", "sofa-rect-h", "sofa-rect-v",
   "sofa-l-0", "sofa-l-90", "sofa-l-180", "sofa-l-270"}

CellType == {"empty", "wall", "door"} \cup SofaTags

\* cellType.startsWith('sofa')
startsWithSofa(tag) == tag \in SofaTags

\* the directions array: right, left, down, up
directions == << <<1, 0>>, <<-1, 0>>, <<0, 1>>, <<0, -1>> >>

Step(pos, dir) == <<pos[1] + dir[1], pos[2] + dir[2]>>

Abs(n) == IF n < 0 THEN -n ELSE n

heuristic(a, b) == Abs(a[1] - b[1]) + Abs(a[2] - b[2])

\* grid.length and grid[0].length
Height(g) == Cardinality(DOMAIN g)
Width(g) == Cardinality(DOMAIN g[0])

isInBounds(pos, g) ==
  pos[1] >= 0 /\ pos[1] < Width(g) /\ pos[2] >= 0 /\ pos[2] < Height(g)

\* mutant: the door counts as floor
isWalkableOrDoor(pos, g) == g[pos[2]][pos[1]] \in {"empty", "door"}

isWalkable(pos, g) == g[pos[2]][pos[1]] = "empty"

\* the positions of the cells of g
GridCells(g) == {<<x, y>> : x \in DOMAIN g[0], y \in DOMAIN g}

\* `${pos.x},${pos.y}`: the decimal renderings of the two coordinates joined
\* by a comma.  Two positions have the same key exactly when they have the
\* same coordinates, so the key is modelled by the coordinate pair.
positionKey(pos) == <<pos[1], pos[2]>>

(***************************************************************************)
(* findPath: A* over 4-connected empty cells.                              *)
(* The open set is a Map, which iterates in insertion order: a sequence of *)
(* nodes.  A node's parent is a reference to a node that has already been  *)
(* closed and is never written again, so it is modelled by that node's     *)
(* position and looked up among the closed nodes.  null is NoPath (a       *)
(* returned path always holds the start, so it is never empty).            *)
(***************************************************************************)
NoPath == << >>
NoParent == << >>

\* mutant: the node inserted last is expanded, whatever its f
LowestFLastInserted(open) == Len(open)

\* the forEach over the open set: the first node with the lowest f
LowestF(open) ==
  CHOOSE i \in 1..Len(open) :
    \A j \in 1..Len(open) :
      open[i].f < open[j].f \/ (open[i].f = open[j].f /\ i <= j)

RemoveAt(s, i) == SubSeq(s, 1, i - 1) \o SubSeq(s, i + 1, Len(s))

RECURSIVE ReconstructPath(_, _, _)
ReconstructPath(node, closed, path) ==
  LET path1 == <<node.position>> \o path
  IN IF node.parent = NoParent THEN path1
     ELSE ReconstructPath(CHOOSE n \in closed : n.position = node.parent,
                          closed, path1)

\* mutant: a neighbour already in the closed set is not skipped
RECURSIVE VisitNeighborsReopening(_, _, _, _, _, _)
VisitNeighborsReopening(d, current, open, closedSet, target, g) ==
  IF d > Len(directions) THEN open
  ELSE
    LET neighborPos == Step(current.position, directions[d])
        tentativeG == current.g + 1
        found == {i \in 1..Len(open) : open[i].position = neighborPos}
        open1 ==
          IF ~isInBounds(neighborPos, g) THEN open
          ELSE IF ~isWalkable(neighborPos, g) THEN open
          ELSE IF found = {}
            THEN Append(open, [position |-> neighborPos,
                               g |-> tentativeG,
                               h |-> heuristic(neighborPos, target),
                               f |-> tentativeG + heuristic(neighborPos, target),
                               parent |-> current.position])
          ELSE open
    IN VisitNeighborsReopening(d + 1, current, open1, closedSet, target, g)

\* the loop over the four neighbours of the current node
RECURSIVE VisitNeighbors(_, _, _, _, _, _)
VisitNeighbors(d, current, open, closedSet, target, g) ==
  IF d > Len(directions) THEN open
  ELSE
    LET neighborPos == Step(current.position, directions[d])
        tentativeG == current.g + 1
        found == {i \in 1..Len(open) : open[i].position = neighborPos}
        open1 ==
          IF ~isInBounds(neighborPos, g) THEN open
          ELSE IF ~isWalkable(neighborPos, g) THEN open
          ELSE IF positionKey(neighborPos) \in closedSet THEN open
          ELSE IF found = {}
            THEN Append(open, [position |-> neighborPos,
                               g |-> tentativeG,
                               h |-> heuristic(neighborPos, target),
                               f |-> tentativeG + heuristic(neighborPos, target),
                               parent |-> current.position])
          ELSE LET i == CHOOSE k \in found : TRUE
               IN IF tentativeG < open[i].g
                    THEN [open EXCEPT ![i] = [position |-> open[i].position,
                                              g |-> tentativeG,
                                              h |-> open[i].h,
                                              f |-> tentativeG + open[i].h,
                                              parent |-> current.position]]
                    ELSE open
    IN VisitNeighbors(d + 1, current, open1, closedSet, target, g)

\* the while loop: open is the open set, closed the nodes already expanded
RECURSIVE AStarLoop(_, _, _, _)
AStarLoop(open, closed, target, g) ==
  IF Len(open) = 0 THEN NoPath
  ELSE
    LET i == LowestF(open)
        currentNode == open[i]
        open1 == RemoveAt(open, i)
        closed1 == closed \cup {currentNode}
        closedSet == {positionKey(n.position) : n \in closed1}
    IN IF currentNode.position = target
         THEN ReconstructPath(currentNode, closed1, << >>)
         ELSE AStarLoop(VisitNeighbors(1, currentNode, open1, closedSet, target, g),
                        closed1, target, g)

\* mutant: a start cell that is not empty is refused
findPathWalkableStart(start, target, g) ==
  IF ~isInBounds(start, g) \/ ~isInBounds(target, g) THEN NoPath
  ELSE IF ~isWalkable(target, g) \/ ~isWalkable(start, g) THEN NoPath
  ELSE AStarLoop(<<[position |-> start,
                    g |-> 0,
                    h |-> heuristic(start, target),
                    f |-> heuristic(start, target),
                    parent |-> NoParent]>>,
                 {}, target, g)

findPath(start, target, g) ==
  IF ~isInBounds(start, g) \/ ~isInBounds(target, g) THEN NoPath
  ELSE IF ~isWalkable(target, g) THEN NoPath
  ELSE AStarLoop(<<[position |-> start,
                    g |-> 0,
                    h |-> heuristic(start, target),
                    f |-> heuristic(start, target),
                    parent |-> NoParent]>>,
                 {}, target, g)

(***************************************************************************)
(* findAllReachablePositions: breadth-first flood fill with a FIFO queue.  *)
(***************************************************************************)
\* mutant: the flood fill enters every in-bounds neighbour, empty or not
RECURSIVE EnqueueNeighborsAnyTag(_, _, _, _, _)
EnqueueNeighborsAnyTag(d, current, queue, visited, g) ==
  IF d > Len(directions) THEN <<queue, visited>>
  ELSE
    LET neighborPos == Step(current, directions[d])
        take == /\ isInBounds(neighborPos, g)
                /\ positionKey(neighborPos) \notin visited
    IN IF take
         THEN EnqueueNeighborsAnyTag(d + 1, current, Append(queue, neighborPos),
                                     visited \cup {positionKey(neighborPos)}, g)
         ELSE EnqueueNeighborsAnyTag(d + 1, current, queue, visited, g)

RECURSIVE EnqueueNeighbors(_, _, _, _, _)
\* returns <<queue, visited>> after the loop over the four directions
EnqueueNeighbors(d, current, queue, visited, g) ==
  IF d > Len(directions) THEN <<queue, visited>>
  ELSE
    LET neighborPos == Step(current, directions[d])
        take == /\ isInBounds(neighborPos, g)
                /\ isWalkable(neighborPos, g)
                /\ positionKey(neighborPos) \notin visited
    IN IF take
         THEN EnqueueNeighbors(d + 1, current, Append(queue, neighborPos),
                               visited \cup {positionKey(neighborPos)}, g)
         ELSE EnqueueNeighbors(d + 1, current, queue, visited, g)

RECURSIVE FloodLoop(_, _, _, _)
FloodLoop(queue, visited, reachable, g) ==
  IF Len(queue) = 0 THEN reachable
  ELSE
    LET current == Head(queue)
        qv == EnqueueNeighbors(1, current, Tail(queue), visited, g)
    IN FloodLoop(qv[1], qv[2], reachable \cup {positionKey(current)}, g)

findAllReachablePositions(start, g) ==
  FloodLoop(<<start>>, {positionKey(start)}, {}, g)

(***************************************************************************)
(* isAdjacentToReachable                                                   *)
(***************************************************************************)
\* mutant: the neighbour is looked up without the bounds check
isAdjacentToReachableUnchecked(position, reachablePositions, g) ==
  \E d \in 1..Len(directions) :
    positionKey(Step(position, directions[d])) \in reachablePositions

isAdjacentToReachable(position, reachablePositions, g) ==
  \E d \in 1..Len(directions) :
    LET adjacentPos == Step(position, directions[d])
    IN isInBounds(adjacentPos, g) /\ positionKey(adjacentPos) \in reachablePositions

(***************************************************************************)
(* identifyCriticalPaths                                                   *)
(***************************************************************************)
Range(seq) == {seq[i] : i \in 1..Len(seq)}

\* the first empty in-bounds neighbour of the door in the order of the
\* directions array, NoPos for null
doorAdjacentEmptyLast(g, door) ==
  LET ok == {d \in 1..Len(directions) :
               /\ isInBounds(Step(door, directions[d]), g)
               /\ g[door[2] + directions[d][2]][door[1] + directions[d][1]] = "empty"}
  IN IF ok = {} THEN << >>
     ELSE Step(door, directions[CHOOSE d \in ok : \A e \in ok : e <= d])

\* mutant: with no empty neighbour, the door cell itself is the seed
doorAdjacentEmptyOrDoor(g, door) ==
  LET ok == {d \in 1..Len(directions) :
               /\ isInBounds(Step(door, directions[d]), g)
               /\ g[door[2] + directions[d][2]][door[1] + directions[d][1]] = "empty"}
  IN IF ok = {} THEN door
     ELSE Step(door, directions[CHOOSE d \in ok : \A e \in ok : d <= e])

\* mutant: the neighbour's tag is not tested
doorAdjacentInBounds(g, door) ==
  LET ok == {d \in 1..Len(directions) : isInBounds(Step(door, directions[d]), g)}
  IN IF ok = {} THEN << >>
     ELSE Step(door, directions[CHOOSE d \in ok : \A e \in ok : d <= e])

doorAdjacentEmpty(g, door) ==
  LET ok == {d \in 1..Len(directions) :
               /\ isInBounds(Step(door, directions[d]), g)
               /\ g[door[2] + directions[d][2]][door[1] + directions[d][1]] = "empty"}
  IN IF ok = {} THEN << >>
     ELSE Step(door, directions[CHOOSE d \in ok : \A e \in ok : d <= e])

\* the nested loops for (y...) for (x...): the cells of g row by row
RowMajor(g) ==
  [i \in 1..(Width(g) * Height(g)) |-> <<(i - 1) % Width(g), (i - 1) \div Width(g)>>]

IsSofa(p, g) == startsWithSofa(g[p[2]][p[1]])

sofaPositions(g) == SelectSeq(RowMajor(g), LAMBDA p : IsSofa(p, g))

emptyCells(g) == SelectSeq(RowMajor(g), LAMBDA p : g[p[2]][p[1]] = "empty")

\* the empty in-bounds neighbours of pos, in the order of the directions
RECURSIVE EmptyNeighbors(_, _, _)
EmptyNeighbors(d, pos, g) ==
  IF d > Len(directions) THEN << >>
  ELSE LET adjacentPos == Step(pos, directions[d])
       IN (IF isInBounds(adjacentPos, g) /\ g[adjacentPos[2]][adjacentPos[1]] = "empty"
             THEN <<adjacentPos>> ELSE << >>)
            \o EmptyNeighbors(d + 1, pos, g)

\* the list of empty cells next to a piece cell, one entry per (piece cell,
\* direction), so a cell can occur several times
RECURSIVE sofaAdjacentEmptyCells(_, _, _)
sofaAdjacentEmptyCells(i, sofas, g) ==
  IF i > Len(sofas) THEN << >>
  ELSE EmptyNeighbors(1, sofas[i], g) \o sofaAdjacentEmptyCells(i + 1, sofas, g)

\* the flood fill that collects one connected component of piece cells:
\* returns <<group, visitedSofas>>
RECURSIVE GroupNeighbors(_, _, _, _, _)
GroupNeighbors(d, current, queue, visitedSofas, g) ==
  IF d > Len(directions) THEN <<queue, visitedSofas>>
  ELSE
    LET adjacentPos == Step(current, directions[d])
        take == /\ isInBounds(adjacentPos, g)
                /\ IsSofa(adjacentPos, g)
                /\ positionKey(adjacentPos) \notin visitedSofas
    IN IF take
         THEN GroupNeighbors(d + 1, current, Append(queue, adjacentPos),
                             visitedSofas \cup {positionKey(adjacentPos)}, g)
         ELSE GroupNeighbors(d + 1, current, queue, visitedSofas, g)

RECURSIVE GroupFlood(_, _, _, _)
GroupFlood(queue, visitedSofas, group, g) ==
  IF Len(queue) = 0 THEN <<group, visitedSofas>>
  ELSE
    LET current == Head(queue)
        qv == GroupNeighbors(1, current, Tail(queue), visitedSofas, g)
    IN GroupFlood(qv[1], qv[2], Append(group, current), g)

\* the piece cells grouped by connected component, in the order found
RECURSIVE sofaGroups(_, _, _, _)
sofaGroups(i, sofas, visitedSofas, g) ==
  IF i > Len(sofas) THEN << >>
  ELSE IF positionKey(sofas[i]) \in visitedSofas
    THEN sofaGroups(i + 1, sofas, visitedSofas, g)
  ELSE LET gv == GroupFlood(<<sofas[i]>>, visitedSofas \cup {positionKey(sofas[i])},
                            << >>, g)
       IN <<gv[1]>> \o sofaGroups(i + 1, sofas, gv[2], g)

\* the empty cells next to a cell of the group
adjacentEmptyCells(group, g) ==
  UNION {Range(EmptyNeighbors(1, group[k], g)) : k \in 1..Len(group)}

\* mutant: the first pass marks the end of each path only
ShortestPathEndsOnly(groups, seed, g) ==
  UNION {{positionKey(targetCell) :
            targetCell \in {t \in adjacentEmptyCells(groups[k], g) :
                              findPath(seed, t, g) # NoPath}} :
           k \in 1..Len(groups)}

\* first pass: the cells of the shortest path from the seed to every empty
\* cell next to a group
ShortestPathCells(groups, seed, g) ==
  UNION {UNION {{positionKey(c) : c \in Range(findPath(seed, targetCell, g))} :
                  targetCell \in adjacentEmptyCells(groups[k], g)} :
           k \in 1..Len(groups)}

\* the copy of the grid with one cell blocked
tempGrid(g, emptyCell) ==
  [g EXCEPT ![emptyCell[2]][emptyCell[1]] = "wall"]

\* in grid tg, an empty cell next to the group has a path from the seed
isGroupReachable(group, seed, tg) ==
  \E k \in 1..Len(group) :
    \E d \in 1..Len(directions) :
      LET adjacentPos == Step(group[k], directions[d])
      IN /\ isInBounds(adjacentPos, tg)
         /\ tg[adjacentPos[2]][adjacentPos[1]] = "empty"
         /\ findPath(seed, adjacentPos, tg) # NoPath

\* mutant: the second pass blocks the cell in the caller's grid itself
blockCellInPlace(g, emptyCell) ==
  [grid |-> tempGrid(g, emptyCell), tempGrid |-> tempGrid(g, emptyCell)]

\* tempGrid = grid.map(row => [...row]); tempGrid[y][x] = 'wall': the write
\* goes to new rows, so the caller's grid keeps its cells
blockCell(g, emptyCell) ==
  [grid |-> g, tempGrid |-> tempGrid(g, emptyCell)]

\* the loop of the second pass from the i-th empty cell on: the keys it adds
\* and the caller's grid as the loop leaves it
RECURSIVE BlockingPass(_, _, _, _, _, _)
BlockingPass(i, cells, groups, critical, seed, g) ==
  IF i > Len(cells) THEN [critical |-> {}, grid |-> g]
  ELSE IF positionKey(cells[i]) \in critical
    THEN BlockingPass(i + 1, cells, groups, critical, seed, g)
  ELSE
    LET b == blockCell(g, cells[i])
        isCritical == \E k \in 1..Len(groups) :
                        ~isGroupReachable(groups[k], seed, b.tempGrid)
        rest == BlockingPass(i + 1, cells, groups, critical, seed, b.grid)
    IN [critical |-> (IF isCritical THEN {positionKey(cells[i])} ELSE {})
                       \cup rest.critical,
        grid |-> rest.grid]

\* mutant: the second pass adds nothing
BlockingCellsNone(groups, critical, seed, g) == {}

\* mutant: the test of the second pass is inverted
BlockingCellsInverted(groups, critical, seed, g) ==
  {positionKey(c) : c \in
     {e \in Range(emptyCells(g)) :
        /\ positionKey(e) \notin critical
        /\ \A k \in 1..Len(groups) :
             isGroupReachable(groups[k], seed, tempGrid(g, e))}}

\* second pass: the empty cells not yet critical whose blocking leaves some
\* group without a reachable neighbour
BlockingCells(groups, critical, seed, g) ==
  BlockingPass(1, emptyCells(g), groups, critical, seed, g).critical

\* mutant: the last temporary grid is left in place of the caller's grid
GridAfterBlockingKeepsLast(groups, critical, seed, g) ==
  LET cells == emptyCells(g)
  IN IF Len(cells) = 0 THEN g ELSE tempGrid(g, cells[Len(cells)])

\* the caller's grid after the second pass
GridAfterBlocking(groups, critical, seed, g) ==
  BlockingPass(1, emptyCells(g), groups, critical, seed, g).grid

\* the depth-first enumeration of paths: the list of the paths pushed to
\* allPaths, in the order they are found
RECURSIVE findAllPaths(_, _, _, _, _, _)
RECURSIVE TryDirections(_, _, _, _, _, _, _)
findAllPaths(current, target, visited, currentPath, maxPathLength, g) ==
  IF current = target THEN <<Append(currentPath, current)>>
  ELSE IF Len(currentPath) > maxPathLength THEN << >>
  ELSE TryDirections(1, current, target, visited \cup {positionKey(current)},
                     Append(currentPath, current), maxPathLength, g)

TryDirections(d, current, target, visited, currentPath, maxPathLength, g) ==
  IF d > Len(directions) THEN << >>
  ELSE
    LET nextPos == Step(current, directions[d])
        go == /\ isInBounds(nextPos, g)
              /\ (g[nextPos[2]][nextPos[1]] = "empty" \/ nextPos = target)
              /\ positionKey(nextPos) \notin visited
    IN (IF go
          THEN findAllPaths(nextPos, target, visited, currentPath, maxPathLength, g)
          ELSE << >>)
         \o TryDirections(d + 1, current, target, visited, currentPath,
                          maxPathLength, g)

\* allPaths.slice(0, 5)
limitedPaths(allPaths) ==
  SubSeq(allPaths, 1, IF Len(allPaths) < 5 THEN Len(allPaths) ELSE 5)

\* third pass, for one target: the cells common to the sampled paths, or
\* every cell of the only path
BottleneckCellsFor(targetCell, seed, g) ==
  LET pathToTarget == findPath(seed, targetCell, g)
  IN IF pathToTarget = NoPath THEN {}
     ELSE
       LET paths == limitedPaths(
                      findAllPaths(seed, targetCell, {}, << >>,
                                   Len(pathToTarget) * 2, g))
       IN IF Len(paths) > 1
            THEN {positionKey(c) : c \in
                    {e \in Range(paths[1]) :
                       \A k \in 1..Len(paths) : e \in Range(paths[k])}}
          ELSE IF Len(paths) = 1
            THEN {positionKey(c) : c \in Range(paths[1])}
          ELSE {}

BottleneckCells(targets, seed, g) ==
  UNION {BottleneckCellsFor(targets[k], seed, g) : k \in 1..Len(targets)}

identifyCriticalPaths(g, door) ==
  LET seed == doorAdjacentEmpty(g, door)
      sofas == sofaPositions(g)
  IN IF seed = << >> THEN {}
     ELSE IF Len(sofas) = 0 THEN {}
     ELSE
       LET groups == sofaGroups(1, sofas, {}, g)
           first == {positionKey(seed)} \cup ShortestPathCells(groups, seed, g)
           second == BlockingCells(groups, first, seed, g)
           third == BottleneckCells(sofaAdjacentEmptyCells(1, sofas, g), seed,
                                    GridAfterBlocking(groups, first, seed, g))
       IN first \cup second \cup third

\* the caller's grid as identifyCriticalPaths leaves it
gridAfterIdentifyCriticalPaths(g, door) ==
  LET seed == doorAdjacentEmpty(g, door)
      sofas == sofaPositions(g)
  IN IF seed = << >> THEN g
     ELSE IF Len(sofas) = 0 THEN g
     ELSE
       LET groups == sofaGroups(1, sofas, {}, g)
           first == {positionKey(seed)} \cup ShortestPathCells(groups, seed, g)
       IN GridAfterBlocking(groups, first, seed, g)

(***************************************************************************)
(* Level generator.  The complexity, a number in [0, 1], is held in        *)
(* hundredths (25 is 0.25), and every quantity the source derives from it  *)
(* with Math.floor is computed in integers.  For a requested complexity    *)
(* below 0.40 this agrees with the source's double arithmetic on every     *)
(* attempt of the retry chain; from 0.40 on, a retry complexity such as    *)
(* 0.4 - 0.1 = 0.30000000000000004 falls on the other side of a test       *)
(* (> 0.3), which integers do not show.                                    *)
(* A Math.random() draw is an input: each place that draws is modelled by  *)
(* the set of outcomes the draws can produce.  The display name of the     *)
(* level (levelNumber, getLevelName) is not modelled.                      *)
(***************************************************************************)
Max(a, b) == IF a > b THEN a ELSE b

SofaTypes == {"single", "rectangular", "l-shaped"}

\* Math.floor(totalInteriorCells * settings.wallDensity), the density in
\* thousandths
numWalls(width, height, wallDensity) ==
  ((width - 2) * (height - 2) * wallDensity) \div 1000

\* the ComplexitySettings derived from the complexity
settings(complexity) ==
  LET width == (600 + complexity * 6) \div 100
      height == (600 + complexity * 6) \div 100
      totalArea == width * height
      \* (estimatedEmptySpaces / n) * inventoryScale, with
      \* estimatedEmptySpaces = totalArea * 0.6 and
      \* inventoryScale = 1 - complexity * 0.3
      scaled(per100) == (totalArea * per100 * (1000 - 3 * complexity)) \div 100000
  IN [width |-> width,
      height |-> height,
      wallDensity |-> 100 + complexity * 2,
      roomComplexity |-> complexity,
      minEmptySpaces |-> (1000 + complexity * 20) \div 100,
      inventory |-> [t \in SofaTypes |->
                       IF t = "single" THEN Max(2, scaled(6))
                       ELSE IF t = "rectangular" THEN Max(1, scaled(4))
                       ELSE Max(1, scaled(3))]]

\* Array(height).fill(null).map(() => Array(width).fill("empty"))
EmptyGrid(width, height) ==
  [y \in 0..(height - 1) |-> [x \in 0..(width - 1) |-> "empty"]]

\* the grid with the cells of S set to tag
Stamp(g, S, tag) ==
  [y \in DOMAIN g |-> [x \in DOMAIN g[y] |-> IF <<x, y>> \in S THEN tag ELSE g[y][x]]]

addOuterWalls(g) ==
  Stamp(g, {p \in GridCells(g) :
              p[1] = 0 \/ p[1] = Width(g) - 1 \/ p[2] = 0 \/ p[2] = Height(g) - 1},
        "wall")

\* mutant: the horizontal arm of the partition runs to the last column
shapedRoomCellsToEdge(width, height, isUShape) ==
  LET wallStartX == (width * 4) \div 10
      wallEndX == (width * 7) \div 10
      wallStartY == (height * 4) \div 10
      wallEndY == (height * 7) \div 10
  IN {<<wallStartX, y>> : y \in 1..(wallEndY - 1)}
       \cup {<<x, wallStartY>> : x \in wallStartX..(width - 1)}
       \cup (IF isUShape THEN {<<wallEndX, y>> : y \in 1..(wallEndY - 1)} ELSE {})

\* the cells createShapedRoom writes: the L-shaped partition, with the
\* second arm of the U when isUShape
shapedRoomCells(width, height, isUShape) ==
  LET wallStartX == (width * 4) \div 10
      wallEndX == (width * 7) \div 10
      wallStartY == (height * 4) \div 10
      wallEndY == (height * 7) \div 10
  IN {<<wallStartX, y>> : y \in 1..(wallEndY - 1)}
       \cup {<<x, wallStartY>> : x \in wallStartX..(width - 2)}
       \cup (IF isUShape THEN {<<wallEndX, y>> : y \in 1..(wallEndY - 1)} ELSE {})

createShapedRoom(g, isUShape) ==
  Stamp(g, shapedRoomCells(Width(g), Height(g), isUShape), "wall")

CeilDiv(a, b) == (a + b - 1) \div b

\* Math.floor(start + Math.random() * (end - start - 1))
GapPositions(start, end) ==
  IF end - start - 1 > 0 THEN start..(end - 2) ELSE (end - 1)..start

\* the draws of one loop iteration: orientation, row or column, first and
\* last coordinate, gap.
\* Math.floor(a + Math.random() * b) ranges over floor(a) .. ceil(a + b) - 1.
DividerDraws(width, height) ==
  LET horizontal ==
        UNION {UNION {{[isHorizontal |-> TRUE, line |-> y, start |-> startX,
                        end |-> endX, gapPos |-> gapPos] :
                         y \in ((height * 3) \div 10)..(CeilDiv(height * 7, 10) - 1),
                         gapPos \in GapPositions(startX, endX)} :
                       endX \in (((width * 7) \div 10) - 1)..(width - 2)} :
                 startX \in 1..CeilDiv(width * 3, 10)}
      vertical ==
        UNION {UNION {{[isHorizontal |-> FALSE, line |-> x, start |-> startY,
                        end |-> endY, gapPos |-> gapPos] :
                         x \in ((width * 3) \div 10)..(CeilDiv(width * 7, 10) - 1),
                         gapPos \in GapPositions(startY, endY)} :
                       endY \in (((height * 7) \div 10) - 1)..(height - 2)} :
                 startY \in 1..CeilDiv(height * 3, 10)}
  IN horizontal \cup vertical

\* the cells the divider d turns into walls
DividerWalls(d) ==
  IF d.isHorizontal
    THEN {<<x, d.line>> : x \in (d.start..d.end) \ {d.gapPos}}
    ELSE {<<d.line, y>> : y \in (d.start..d.end) \ {d.gapPos}}

\* the cell sets one divider can write
DividerCells(width, height) ==
  {DividerWalls(d) : d \in DividerDraws(width, height)}

\* one divider: the grids the draws of one loop iteration can produce
DividerOutcomes(g) ==
  {Stamp(g, S, "wall") : S \in DividerCells(Width(g), Height(g))}

\* the grids createComplexRoom can leave after i more dividers
RECURSIVE createComplexRoom(_, _)
createComplexRoom(gs, i) ==
  IF i = 0 THEN gs
  ELSE createComplexRoom(UNION {DividerOutcomes(g) : g \in gs}, i - 1)

\* the grids the room-shape step can leave
RoomShapeOutcomes(g, st) ==
  IF st.roomComplexity > 30
    THEN IF st.roomComplexity > 70
           THEN createComplexRoom({g}, (200 + st.roomComplexity * 3) \div 100)
           ELSE {createShapedRoom(g, u) :
                   u \in IF st.roomComplexity > 50 THEN {TRUE, FALSE} ELSE {FALSE}}
    ELSE {g}

RECURSIVE KSubsets(_, _)
KSubsets(S, k) ==
  IF k = 0 THEN {{}}
  ELSE IF Cardinality(S) < k THEN {}
  ELSE LET x == CHOOSE e \in S : TRUE
       IN KSubsets(S \ {x}, k) \cup {T \cup {x} : T \in KSubsets(S \ {x}, k - 1)}

\* the grids addInteriorWalls can leave: the loop draws interior cells until
\* it has turned numWalls empty ones into walls, so any numWalls empty
\* interior cells can be the ones hit (with fewer empty interior cells than
\* that the loop does not end: no outcome)
addInteriorWalls(g, st) ==
  LET interiorEmpty ==
        {p \in GridCells(g) :
           /\ p[1] >= 1 /\ p[1] <= Width(g) - 2
           /\ p[2] >= 1 /\ p[2] <= Height(g) - 2
           /\ g[p[2]][p[1]] = "empty"}
  IN {Stamp(g, S, "wall") :
        S \in KSubsets(interiorEmpty, numWalls(Width(g), Height(g), st.wallDensity))}

\* mutant: the corners of the outer ring are candidates too
placeDoorWithCorners(g) ==
  {p \in GridCells(g) :
     p[1] = 0 \/ p[1] = Width(g) - 1 \/ p[2] = 0 \/ p[2] = Height(g) - 1}

\* the door positions placeDoor can return: the shuffle can put any
\* candidate first, so any outer, non-corner cell with an empty interior
\* neighbour can be chosen; without one, the default position is returned
placeDoor(g) ==
  LET width == Width(g)
      height == Height(g)
      possiblePositions ==
        {<<x, y>> : x \in {0, width - 1}, y \in 1..(height - 2)}
          \cup {<<x, y>> : x \in 1..(width - 2), y \in {0, height - 1}}
      valid ==
        {pos \in possiblePositions :
           \E d \in 1..Len(directions) :
             LET adjPos == Step(pos, directions[d])
             IN /\ adjPos[1] > 0 /\ adjPos[1] < width - 1
                /\ adjPos[2] > 0 /\ adjPos[2] < height - 1
                /\ g[adjPos[2]][adjPos[1]] = "empty"}
  IN IF valid # {} THEN valid ELSE {<<0, height \div 2>>}

\* the flood fill of validateLevel: the set of cells marked visited
RECURSIVE ValidateNeighbors(_, _, _, _, _)
ValidateNeighbors(d, current, queue, visited, g) ==
  IF d > Len(directions) THEN <<queue, visited>>
  ELSE
    LET neighbor == Step(current, directions[d])
        take == /\ neighbor[1] >= 0 /\ neighbor[1] < Width(g)
                /\ neighbor[2] >= 0 /\ neighbor[2] < Height(g)
                /\ g[neighbor[2]][neighbor[1]] = "empty"
                /\ neighbor \notin visited
    IN IF take
         THEN ValidateNeighbors(d + 1, current, Append(queue, neighbor),
                                visited \cup {neighbor}, g)
         ELSE ValidateNeighbors(d + 1, current, queue, visited, g)

RECURSIVE ValidateFlood(_, _, _)
ValidateFlood(queue, visited, g) ==
  IF Len(queue) = 0 THEN visited
  ELSE LET qv == ValidateNeighbors(1, Head(queue), Tail(queue), visited, g)
       IN ValidateFlood(qv[1], qv[2], g)

\* mutant: without an empty neighbour the fill starts on the door cell
ValidateStartOrDoor(g, door) ==
  LET ok == {d \in 1..Len(directions) :
               LET pos == Step(door, directions[d])
               IN /\ pos[1] >= 0 /\ pos[1] < Width(g)
                  /\ pos[2] >= 0 /\ pos[2] < Height(g)
                  /\ g[pos[2]][pos[1]] = "empty"}
  IN IF ok = {} THEN door
     ELSE Step(door, directions[CHOOSE d \in ok : \A e \in ok : d <= e])

\* the first empty in-bounds neighbour of the door, << >> when there is none
ValidateStart(g, door) ==
  LET ok == {d \in 1..Len(directions) :
               LET pos == Step(door, directions[d])
               IN /\ pos[1] >= 0 /\ pos[1] < Width(g)
                  /\ pos[2] >= 0 /\ pos[2] < Height(g)
                  /\ g[pos[2]][pos[1]] = "empty"}
  IN IF ok = {} THEN << >>
     ELSE Step(door, directions[CHOOSE d \in ok : \A e \in ok : d <= e])

\* mutant: only the door's access is checked, not the number of empty cells
validateLevelDoorOnly(g, door, st) == ValidateStart(g, door) # << >>

\* emptySpaces counts the cells marked visited
validateLevel(g, door, st) ==
  LET start == ValidateStart(g, door)
  IN IF start = << >> THEN FALSE
     ELSE Cardinality(ValidateFlood(<<start>>, {start}, g)) >= st.minEmptySpaces

\* the walls array of the returned level
wallsOf(g) == {p \in GridCells(g) : g[p[2]][p[1]] = "wall"}

\* mutant: the retry keeps the complexity
retryComplexitySame(complexity) == complexity

\* Math.max(0, complexity - 0.1)
retryComplexity(complexity) == Max(0, complexity - 10)

(***************************************************************************)
(* Explored inputs: every grid shape of at most MaxCells cells, with at    *)
(* most MaxBlocked cells that are not empty.                               *)
(***************************************************************************)
Sides == 1..(IF MaxCells > MaxRoomCells THEN MaxCells ELSE MaxRoomCells)

Shapes == {wh \in Sides \X Sides : wh[1] * wh[2] <= MaxCells}

CellsOf(wh) == {<<x, y>> : x \in 0..(wh[1] - 1), y \in 0..(wh[2] - 1)}

\* the grid of shape wh whose cells in DOMAIN tagOf carry tagOf's tag
MakeGrid(wh, tagOf) ==
  [y \in 0..(wh[2] - 1) |->
    [x \in 0..(wh[1] - 1) |->
      IF <<x, y>> \in DOMAIN tagOf THEN tagOf[<<x, y>>] ELSE "empty"]]

RECURSIVE SubsetsUpTo(_, _)
SubsetsUpTo(S, k) ==
  IF k = 0 \/ S = {} THEN {{}}
  ELSE LET x == CHOOSE e \in S : TRUE
       IN SubsetsUpTo(S \ {x}, k) \cup {T \cup {x} : T \in SubsetsUpTo(S \ {x}, k - 1)}

\* g's cells with one position just outside each side
ExtCells(g) ==
  GridCells(g) \cup {<<-1, 0>>, <<Width(g), 0>>, <<0, -1>>, <<0, Height(g)>>}

ObstacleTags == <<"wall", "door", "sofa-single">>

\* row-major rank of p among the cells of S
Rank(p, S) ==
  Cardinality({c \in S : c[2] < p[2] \/ (c[2] = p[2] /\ c[1] < p[1])})

\* the blocked cells of S tagged wall, door, piece in turn, starting at r
PatternTags(S, r) ==
  [p \in S |-> ObstacleTags[((Rank(p, S) + r) % Len(ObstacleTags)) + 1]]

NoPos == << >>

\* the query in progress: its arguments, the number of calls made in a row
\* and, while findPath runs its loop, the open set, the closed nodes and the
\* number of iterations made
Idle ==
  [op |-> "idle", start |-> NoPos, target |-> NoPos, position |-> NoPos,
   reachablePositions |-> {}, calls |-> 0,
   pc |-> "none", openSet |-> << >>, closed |-> {}, iterations |-> 0,
   type |-> "none", rotation |-> 0]

NoResult == [path |-> NoPath, cells |-> {}, flag |-> FALSE, paths |-> << >>]

NoGen == [pc |-> "none"]

\* the state of the page when it is mounted (useState); message holds the
\* kind of the text shown and the cell or the number the text names
NoHome ==
  [inventory |-> [t \in SofaTypes |-> 0],
   sofas |-> << >>,
   nextSofaId |-> 1,
   score |-> 0,
   message |-> <<"place sofas">>,
   showSuccessDialog |-> FALSE,
   criticalPathCells |-> {},
   showCriticalPaths |-> FALSE]

InitPath ==
  /\ \E wh \in Shapes :
       \E S \in SubsetsUpTo(CellsOf(wh), MaxBlocked) :
         \E r \in 0..(Len(ObstacleTags) - 1) :
           grid = MakeGrid(wh, PatternTags(S, r))
  /\ doorPosition = NoPos
  /\ call = Idle
  /\ ret = NoResult
  /\ gen = NoGen
  /\ home = NoHome

\* a caller invokes findPath(start, target, grid)
CallFindPath ==
  /\ call.op = "idle"
  /\ \E s \in ExtCells(grid), t \in ExtCells(grid) :
       /\ call' = [Idle EXCEPT !.op = "findPath", !.start = s, !.target = t]
       /\ ret' = [NoResult EXCEPT !.path = findPath(s, t, grid)]
  /\ UNCHANGED <<grid, doorPosition, gen, home>>

\* a caller invokes findAllReachablePositions(start, grid)
CallFindAllReachablePositions ==
  /\ call.op = "idle"
  /\ \E s \in ExtCells(grid) :
       /\ call' = [Idle EXCEPT !.op = "findAllReachablePositions", !.start = s]
       /\ ret' = [NoResult EXCEPT !.cells = findAllReachablePositions(s, grid)]
  /\ UNCHANGED <<grid, doorPosition, gen, home>>

\* the sets of position keys handed to isAdjacentToReachable: a flood fill's
\* result, a single key (inside the grid or just outside it), or no key
ReachableSets(g) ==
  {findAllReachablePositions(s, g) : s \in ExtCells(g)}
    \cup {{positionKey(a)} : a \in ExtCells(g)} \cup {{}}

\* a caller invokes isAdjacentToReachable(position, reachablePositions, grid)
CallIsAdjacentToReachable ==
  /\ call.op = "idle"
  /\ \E p \in ExtCells(grid), R \in ReachableSets(grid) :
       /\ call' = [Idle EXCEPT !.op = "isAdjacentToReachable", !.position = p,
                               !.reachablePositions = R]
       /\ ret' = [NoResult EXCEPT !.flag = isAdjacentToReachable(p, R, grid)]
  /\ UNCHANGED <<grid, doorPosition, gen, home>>

NextPath == CallFindPath

SpecPath == InitPath /\ [][NextPath]_vars

NextReach == CallFindAllReachablePositions \/ CallIsAdjacentToReachable

SpecReach == InitPath /\ [][NextReach]_vars

(***************************************************************************)
(* findPath, one loop iteration at a time.                                 *)
(***************************************************************************)
InitSearch ==
  /\ InitPath
  /\ Width(grid) * Height(grid) <= MaxFrameCells

\* findPath up to its while loop: the early returns, or the start node put
\* in the open set
FindPathEnter ==
  /\ call.op = "idle"
  /\ \E s \in ExtCells(grid), t \in ExtCells(grid) :
       IF ~isInBounds(s, grid) \/ ~isInBounds(t, grid) \/ ~isWalkable(t, grid)
         THEN call' = [Idle EXCEPT !.op = "findPath", !.start = s, !.target = t,
                                   !.pc = "returned"]
         ELSE call' = [Idle EXCEPT !.op = "findPath", !.start = s, !.target = t,
                                   !.pc = "loop",
                                   !.openSet = <<[position |-> s,
                                                  g |-> 0,
                                                  h |-> heuristic(s, t),
                                                  f |-> heuristic(s, t),
                                                  parent |-> NoParent]>>]
  /\ ret' = NoResult
  /\ UNCHANGED <<grid, doorPosition, gen, home>>

\* one pass through the body of the while loop, or the exit from it
FindPathIteration ==
  /\ call.op = "findPath"
  /\ call.pc = "loop"
  /\ IF Len(call.openSet) = 0
       THEN /\ call' = [call EXCEPT !.pc = "returned"]
            /\ ret' = NoResult
       ELSE
         LET i == LowestF(call.openSet)
             currentNode == call.openSet[i]
             open1 == RemoveAt(call.openSet, i)
             closed1 == call.closed \cup {currentNode}
             closedSet == {positionKey(n.position) : n \in closed1}
         IN IF currentNode.position = call.target
              THEN /\ call' = [call EXCEPT !.pc = "returned", !.openSet = open1,
                                           !.closed = closed1,
                                           !.iterations = @ + 1]
                   /\ ret' = [NoResult EXCEPT
                                !.path = ReconstructPath(currentNode, closed1, << >>)]
              ELSE /\ call' = [call EXCEPT
                                 !.openSet = VisitNeighbors(1, currentNode, open1,
                                                            closedSet, call.target, grid),
                                 !.closed = closed1,
                                 !.iterations = @ + 1]
                   /\ ret' = NoResult
  /\ UNCHANGED <<grid, doorPosition, gen, home>>

NextSearch == FindPathEnter \/ FindPathIteration

SpecSearch == InitSearch /\ [][NextSearch]_vars

\* findPath is a synchronous function: once in its loop it keeps running
FairSpecSearch == SpecSearch /\ WF_vars(FindPathIteration)

(***************************************************************************)
(* Reference notions the properties are stated in, defined on the grid     *)
(* alone and independently of the search code.                             *)
(***************************************************************************)
InGrid(p) ==
  /\ p[1] \in 0..(Width(grid) - 1)
  /\ p[2] \in 0..(Height(grid) - 1)

IsEmptyCell(p) == InGrid(p) /\ grid[p[2]][p[1]] = "empty"

Orthogonal(p, q) ==
  (p[1] = q[1] /\ (p[2] - q[2] = 1 \/ q[2] - p[2] = 1))
    \/ (p[2] = q[2] /\ (p[1] - q[1] = 1 \/ q[1] - p[1] = 1))

\* the cells that 4-directional moves entering only empty cells reach from
\* the cells of R, together with R
RECURSIVE Closure(_, _)
Closure(R, frontier) ==
  LET more == {q \in UNION {{<<p[1] + 1, p[2]>>, <<p[1] - 1, p[2]>>,
                              <<p[1], p[2] + 1>>, <<p[1], p[2] - 1>>} : p \in frontier} :
                 q \notin R /\ IsEmptyCell(q)}
  IN IF more = {} THEN R ELSE Closure(R \cup more, more)

ConnectedTo(s) == Closure({s}, {s})

\* breadth-first distance from the cells of frontier (at distance d) to t
RECURSIVE BfsDistance(_, _, _, _)
BfsDistance(frontier, seen, t, d) ==
  IF t \in frontier THEN d
  ELSE LET next == {q \in GridCells(grid) :
                      q \notin seen /\ grid[q[2]][q[1]] = "empty"
                        /\ \E p \in frontier : Orthogonal(p, q)}
       IN IF next = {} THEN -1
          ELSE BfsDistance(next, seen \cup next, t, d + 1)

ShortestDistance(s, t) == BfsDistance({s}, {s}, t, 0)

(***************************************************************************)
(* C1 - path optimality: for in-bounds empty cells s and t joined by a     *)
(* chain of empty cells, findPath returns a path whose number of steps     *)
(* (positions minus one) is the breadth-first shortest distance.           *)
(***************************************************************************)
C1_PathOptimality ==
  (/\ call.op = "findPath"
   /\ IsEmptyCell(call.start)
   /\ IsEmptyCell(call.target)
   /\ call.target \in ConnectedTo(call.start))
    => (/\ ret.path # NoPath
        /\ Len(ret.path) - 1 = ShortestDistance(call.start, call.target))

\* a path that had to leave the straight route: longer than the Manhattan
\* distance between its ends
C1_Witness ==
  /\ call.op = "findPath"
  /\ IsEmptyCell(call.start)
  /\ IsEmptyCell(call.target)
  /\ ret.path # NoPath
  /\ Len(ret.path) - 1 > heuristic(call.start, call.target)

(***************************************************************************)
(* C2 - no-path correctness: findPath returns none exactly when an         *)
(* endpoint is out of bounds, the target is not empty, or the target       *)
(* cannot be reached from the start by moves entering only empty cells;    *)
(* the start cell itself need not be empty.                                *)
(***************************************************************************)
C2_NoPathIff ==
  call.op = "findPath" =>
    ((ret.path = NoPath) <=>
       (\/ ~InGrid(call.start)
        \/ ~InGrid(call.target)
        \/ ~IsEmptyCell(call.target)
        \/ call.target \notin ConnectedTo(call.start)))

\* none for an empty in-bounds target that is walled off from the start
C2_Witness ==
  /\ call.op = "findPath"
  /\ InGrid(call.start)
  /\ IsEmptyCell(call.target)
  /\ call.target \notin ConnectedTo(call.start)
  /\ ret.path = NoPath

\* a path of several cells is returned from a start cell that is not empty
C2_WitnessStart ==
  /\ call.op = "findPath"
  /\ InGrid(call.start)
  /\ ~IsEmptyCell(call.start)
  /\ Len(ret.path) >= 3

(***************************************************************************)
(* C3 - path soundness: a returned path runs from start to target through  *)
(* orthogonally adjacent cells, repeats no cell, and every cell but the    *)
(* start is an in-bounds empty cell.                                       *)
(***************************************************************************)
C3_PathSoundness ==
  (call.op = "findPath" /\ ret.path # NoPath) =>
    LET path == ret.path
    IN /\ path[1] = call.start
       /\ path[Len(path)] = call.target
       /\ \A i \in 1..(Len(path) - 1) : Orthogonal(path[i], path[i + 1])
       /\ \A i, j \in 1..Len(path) : path[i] = path[j] => i = j
       /\ \A i \in 2..Len(path) : IsEmptyCell(path[i])

\* a path that starts on a cell that is not empty and bends around a blocked
\* cell
C3_Witness ==
  /\ call.op = "findPath"
  /\ Len(ret.path) >= 4
  /\ ~IsEmptyCell(call.start)
  /\ Len(ret.path) - 1 > heuristic(call.start, call.target)

(***************************************************************************)
(* C4 - reachability completeness: findAllReachablePositions(s, grid) is   *)
(* exactly s together with the empty cells joined to s by a 4-connected    *)
(* chain of empty cells.                                                   *)
(***************************************************************************)
C4_ReachabilityExact ==
  call.op = "findAllReachablePositions" =>
    ret.cells = {positionKey(p) : p \in ConnectedTo(call.start)}

\* a flood fill that reaches several cells and leaves an empty cell out
C4_Witness ==
  /\ call.op = "findAllReachablePositions"
  /\ Cardinality(ret.cells) >= 3
  /\ \E q \in GridCells(grid) : IsEmptyCell(q) /\ positionKey(q) \notin ret.cells

(***************************************************************************)
(* C5 - adjacency correctness: isAdjacentToReachable(p, R, grid) is true   *)
(* exactly when one of the four orthogonal neighbours of p is inside the   *)
(* grid and a member of R, whatever the tags of p and of that neighbour.   *)
(***************************************************************************)
C5_AdjacencyIff ==
  call.op = "isAdjacentToReachable" =>
    (ret.flag <=>
       \E q \in call.reachablePositions :
         InGrid(q) /\ Orthogonal(call.position, q))

\* false although a member of R is next to p: that member is out of bounds
C5_Witness ==
  /\ call.op = "isAdjacentToReachable"
  /\ ~ret.flag
  /\ InGrid(call.position)
  /\ \E q \in call.reachablePositions : Orthogonal(call.position, q) /\ ~InGrid(q)

\* true through a neighbour that is not an empty cell
C5_WitnessTag ==
  /\ call.op = "isAdjacentToReachable"
  /\ ret.flag
  /\ \A q \in call.reachablePositions :
       Orthogonal(call.position, q) => (InGrid(q) /\ ~IsEmptyCell(q))

(***************************************************************************)
(* Rooms handed to identifyCriticalPaths: one door cell, and at most       *)
(* MaxRoomBlocked other cells that are walls or piece cells.               *)
(***************************************************************************)
RoomShapes == {wh \in Sides \X Sides : wh[1] * wh[2] <= MaxRoomCells}

InitCrit ==
  /\ \E wh \in RoomShapes :
       \E d \in CellsOf(wh) :
         \E S \in SubsetsUpTo(CellsOf(wh) \ {d}, MaxRoomBlocked) :
           \E f \in [S -> {"wall", "sofa-single"}] :
             /\ grid = MakeGrid(wh, f @@ (d :> "door"))
             /\ doorPosition = d
  /\ call = Idle
  /\ ret = NoResult
  /\ gen = NoGen
  /\ home = NoHome

\* a caller invokes identifyCriticalPaths(grid, doorPosition), for the first
\* time or again (checkSolution and toggleCriticalPaths both call it on the
\* page's grid); the grid is passed by reference and is left as the call
\* leaves it
CallIdentifyCriticalPaths ==
  /\ call.op \in {"idle", "identifyCriticalPaths"}
  /\ call.calls < MaxCalls
  /\ call' = [Idle EXCEPT !.op = "identifyCriticalPaths", !.calls = call.calls + 1]
  /\ ret' = [NoResult EXCEPT !.cells = identifyCriticalPaths(grid, doorPosition)]
  /\ grid' = gridAfterIdentifyCriticalPaths(grid, doorPosition)
  /\ UNCHANGED <<doorPosition, gen, home>>

NextCrit == CallIdentifyCriticalPaths

SpecCrit == InitCrit /\ [][NextCrit]_vars

(***************************************************************************)
(* The four queries on one family of rooms.                                *)
(***************************************************************************)
InitFrame ==
  /\ InitCrit
  /\ Width(grid) * Height(grid) <= MaxFrameCells

NextFrame ==
  \/ CallFindPath
  \/ CallFindAllReachablePositions
  \/ CallIsAdjacentToReachable
  \/ CallIdentifyCriticalPaths

SpecFrame == InitFrame /\ [][NextFrame]_vars

\* the first empty neighbour of the door, looking right, left, down, up
FirstEmptyDoorNeighbour ==
  LET x == doorPosition[1]
      y == doorPosition[2]
  IN IF IsEmptyCell(<<x + 1, y>>) THEN <<x + 1, y>>
     ELSE IF IsEmptyCell(<<x - 1, y>>) THEN <<x - 1, y>>
     ELSE IF IsEmptyCell(<<x, y + 1>>) THEN <<x, y + 1>>
     ELSE IF IsEmptyCell(<<x, y - 1>>) THEN <<x, y - 1>>
     ELSE NoPos

PieceCells ==
  {p \in GridCells(grid) : grid[p[2]][p[1]] \notin {"empty", "wall", "door"}}

\* the maximal 4-connected cluster of piece cells that holds p
RECURSIVE Cluster(_)
Cluster(G) ==
  LET more == {q \in PieceCells : q \notin G /\ \E p \in G : Orthogonal(p, q)}
  IN IF more = {} THEN G ELSE Cluster(G \cup more)

PieceGroups == {Cluster({p}) : p \in PieceCells}

\* the empty cells next to a piece cell
PieceAdjacentEmpty ==
  {a \in GridCells(grid) :
     IsEmptyCell(a) /\ \E p \in PieceCells : Orthogonal(a, p)}

\* the cells reached from the seed once cell c has become a wall
RECURSIVE ClosureAvoiding(_, _)
ClosureAvoiding(R, c) ==
  LET more == {q \in GridCells(grid) :
                 q \notin R /\ q # c /\ grid[q[2]][q[1]] = "empty"
                   /\ \E p \in R : Orthogonal(p, q)}
  IN IF more = {} THEN R ELSE ClosureAvoiding(R \cup more, c)

ReachableWithout(c) ==
  IF c = FirstEmptyDoorNeighbour THEN {}
  ELSE ClosureAvoiding({FirstEmptyDoorNeighbour}, c)

\* turning c into a wall leaves some piece group with no adjacent empty cell
\* reachable from the seed
Disconnects(c) ==
  \E G \in PieceGroups :
    \A a \in GridCells(grid) :
      (IsEmptyCell(a) /\ a # c /\ \E p \in G : Orthogonal(a, p))
        => a \notin ReachableWithout(c)

\* the cells of the simple paths of empty cells from cur to target that
\* avoid the cells of visited (none when there is no such path)
RECURSIVE CellsOnSimplePaths(_, _, _)
CellsOnSimplePaths(cur, target, visited) ==
  IF cur = target THEN {target}
  ELSE
    LET onward == UNION {CellsOnSimplePaths(n, target, visited \cup {cur}) :
                           n \in {q \in GridCells(grid) :
                                    /\ IsEmptyCell(q)
                                    /\ Orthogonal(cur, q)
                                    /\ q \notin visited \cup {cur}}}
    IN IF onward = {} THEN {} ELSE onward \cup {cur}

OnSimplePathToPiece(c) ==
  \E a \in PieceAdjacentEmpty :
    c \in CellsOnSimplePaths(FirstEmptyDoorNeighbour, a, {})

(***************************************************************************)
(* C9 - the door-adjacent seed is reported critical.  As claimed (for      *)
(* every grid, also one without pieces): whenever the door has an empty    *)
(* neighbour, the first one is in the returned set.                        *)
(***************************************************************************)
C9_SeedAlwaysCritical ==
  (call.op = "identifyCriticalPaths" /\ FirstEmptyDoorNeighbour # NoPos)
    => positionKey(FirstEmptyDoorNeighbour) \in ret.cells

\* C9 as amended: whenever the door has an empty neighbour and at least one
\* piece cell is on the grid, the first empty neighbour of the door (right,
\* left, down, up) is in the returned set.
C9_SeedCriticalWithPieces ==
  (/\ call.op = "identifyCriticalPaths"
   /\ FirstEmptyDoorNeighbour # NoPos
   /\ PieceCells # {})
    => positionKey(FirstEmptyDoorNeighbour) \in ret.cells

\* the door has two empty neighbours, a piece is on the grid, and the first
\* neighbour is reported
C9_Witness ==
  /\ call.op = "identifyCriticalPaths"
  /\ PieceCells # {}
  /\ Cardinality({q \in GridCells(grid) :
                    IsEmptyCell(q) /\ Orthogonal(q, doorPosition)}) >= 2
  /\ positionKey(FirstEmptyDoorNeighbour) \in ret.cells

(***************************************************************************)
(* C10 - as claimed: every returned position is an empty cell whose        *)
(* conversion to wall would leave some piece group with no adjacent empty  *)
(* cell reachable from the seed.                                           *)
(***************************************************************************)
C10_EveryCriticalCellDisconnects ==
  call.op = "identifyCriticalPaths" =>
    \A c \in ret.cells : IsEmptyCell(c) /\ Disconnects(c)

\* C10 as amended: every returned position is an empty cell that is the
\* seed, or whose conversion to wall would leave some piece group with no
\* adjacent empty cell reachable from the seed, or that lies on a simple
\* path of empty cells from the seed to an empty cell next to a piece.
C10_CriticalCellDisconnectsOrOnPath ==
  call.op = "identifyCriticalPaths" =>
    \A c \in ret.cells :
      /\ IsEmptyCell(c)
      /\ \/ c = FirstEmptyDoorNeighbour
         \/ Disconnects(c)
         \/ OnSimplePathToPiece(c)

\* one returned cell other than the seed is a cut cell, and another is no
\* cut cell but lies on a simple path from the seed to a piece
C10_Witness ==
  /\ call.op = "identifyCriticalPaths"
  /\ \E c \in ret.cells : c # FirstEmptyDoorNeighbour /\ Disconnects(c)
  /\ \E c \in ret.cells :
       /\ c # FirstEmptyDoorNeighbour
       /\ ~Disconnects(c)
       /\ OnSimplePathToPiece(c)

(***************************************************************************)
(* C11 - every returned position is inside the grid and tagged empty in    *)
(* the grid handed to identifyCriticalPaths: no wall, door or piece cell   *)
(* is reported by any of the three passes.                                 *)
(***************************************************************************)
C11_CriticalCellsAreEmpty ==
  call.op = "identifyCriticalPaths" =>
    \A c \in ret.cells :
      /\ c[1] >= 0 /\ c[1] < Width(grid)
      /\ c[2] >= 0 /\ c[2] < Height(grid)
      /\ grid[c[2]][c[1]] = "empty"

\* a grid with a wall and a piece both next to returned cells, and at least
\* three cells returned
C11_Witness ==
  /\ call.op = "identifyCriticalPaths"
  /\ Cardinality(ret.cells) >= 3
  /\ \E w \in GridCells(grid), c \in ret.cells :
       grid[w[2]][w[1]] = "wall" /\ Orthogonal(w, c)
  /\ \E q \in PieceCells, c \in ret.cells : Orthogonal(q, c)

C13_GridUnchanged ==
  [][call'.op \in {"findPath", "findAllReachablePositions",
                   "isAdjacentToReachable", "identifyCriticalPaths"}
       => grid' = grid]_vars

\* identifyCriticalPaths has returned on a grid with a piece and a reachable
\* seed where the second pass blocked a candidate cell in its copy
C13_Witness ==
  /\ call.op = "identifyCriticalPaths"
  /\ PieceCells # {}
  /\ FirstEmptyDoorNeighbour # NoPos
  /\ Cardinality(ret.cells) >= 2
  /\ \E e \in GridCells(grid) : IsEmptyCell(e) /\ e \notin ret.cells

(***************************************************************************)
(* C15 - when none of the four neighbours of the door is an in-bounds      *)
(* empty cell, identifyCriticalPaths returns the empty set, whatever       *)
(* pieces are on the grid.                                                 *)
(***************************************************************************)
C15_BlockedDoorNoCriticalCells ==
  (/\ call.op = "identifyCriticalPaths"
   /\ \A q \in GridCells(grid) : ~(Orthogonal(q, doorPosition) /\ IsEmptyCell(q)))
    => ret.cells = {}

\* a door with no empty neighbour, on a grid with a piece that has an empty
\* cell next to it: nothing is returned
C15_Witness ==
  /\ call.op = "identifyCriticalPaths"
  /\ \A q \in GridCells(grid) : ~(Orthogonal(q, doorPosition) /\ IsEmptyCell(q))
  /\ PieceAdjacentEmpty # {}
  /\ ret.cells = {}

(***************************************************************************)
(* C16 - with a seed next to the door and a piece on the grid, every empty *)
(* cell whose conversion to wall leaves some piece group with no adjacent  *)
(* empty cell reachable from the seed is in the returned set.              *)
(***************************************************************************)
C16_EveryCutCellReported ==
  (/\ call.op = "identifyCriticalPaths"
   /\ FirstEmptyDoorNeighbour # NoPos
   /\ PieceCells # {})
    => \A c \in GridCells(grid) :
         (IsEmptyCell(c) /\ Disconnects(c)) => positionKey(c) \in ret.cells

\* a cut cell other than the seed is returned, on a grid with an empty cell
\* that is no cut cell
C16_Witness ==
  /\ call.op = "identifyCriticalPaths"
  /\ FirstEmptyDoorNeighbour # NoPos
  /\ PieceCells # {}
  /\ \E c \in ret.cells : c # FirstEmptyDoorNeighbour /\ Disconnects(c)
  /\ \E e \in GridCells(grid) : IsEmptyCell(e) /\ ~Disconnects(e)

(***************************************************************************)
(* C17 - for every empty cell next to a piece that is reachable from the   *)
(* seed, every cell of findPath(seed, cell, grid) is in the returned set,  *)
(* and so is the cell itself.                                              *)
(***************************************************************************)
C17_ShortestPathsReported ==
  (call.op = "identifyCriticalPaths" /\ FirstEmptyDoorNeighbour # NoPos)
    => \A a \in PieceAdjacentEmpty :
         a \in ConnectedTo(FirstEmptyDoorNeighbour)
           => /\ positionKey(a) \in ret.cells
              /\ \A c \in Range(findPath(FirstEmptyDoorNeighbour, a, grid)) :
                   positionKey(c) \in ret.cells

\* a reachable empty cell next to a piece, at least two steps from the seed
\* and reachable along two different shortest paths, with its path returned
C17_Witness ==
  /\ call.op = "identifyCriticalPaths"
  /\ FirstEmptyDoorNeighbour # NoPos
  /\ \E a \in PieceAdjacentEmpty :
       /\ a \in ConnectedTo(FirstEmptyDoorNeighbour)
       /\ ShortestDistance(FirstEmptyDoorNeighbour, a) >= 2
       /\ \A c \in Range(findPath(FirstEmptyDoorNeighbour, a, grid)) :
            positionKey(c) \in ret.cells
       /\ \E e \in GridCells(grid) :
            /\ IsEmptyCell(e)
            /\ e \notin ret.cells
            /\ ShortestDistance(FirstEmptyDoorNeighbour, e)
                 + ShortestDistance(e, a) = ShortestDistance(FirstEmptyDoorNeighbour, a)

\* the positions in the open set and in the closed set of the running search
OpenPositions == {call.openSet[i].position : i \in 1..Len(call.openSet)}

ClosedPositions == {n.position : n \in call.closed}

(***************************************************************************)
(* C14 - findPath terminates: every loop iteration moves exactly one       *)
(* position from the open set to the closed set, no position is in both,   *)
(* no position leaves the closed set, so each position is expanded at most *)
(* once (the iterations made are as many as the closed positions, at most  *)
(* the number of cells), and every call that enters the loop returns.      *)
(***************************************************************************)
C14_FindPathTerminates ==
  /\ [][(call.op = "findPath" /\ call.pc = "loop" /\ Len(call.openSet) > 0)
          => LET moved == call.openSet[LowestF(call.openSet)].position
             IN /\ moved \notin ClosedPositions
                /\ ClosedPositions' = ClosedPositions \cup {moved}
                /\ moved \notin OpenPositions'
                /\ call'.iterations = call.iterations + 1]_vars
  /\ [](call.op = "findPath" =>
          /\ OpenPositions \cap ClosedPositions = {}
          /\ call.iterations = Cardinality(ClosedPositions)
          /\ call.iterations <= Width(grid) * Height(grid))
  /\ (call.op = "findPath") ~> (call.pc = "returned")

\* a search that gave up after expanding three positions: the open set ran
\* empty although the target is an empty cell
C14_Witness ==
  /\ call.op = "findPath"
  /\ call.pc = "returned"
  /\ call.iterations >= 3
  /\ ret.path = NoPath
  /\ IsEmptyCell(call.target)

(***************************************************************************)
(* Level generation followed by the set-up of the play grid.               *)
(***************************************************************************)
\* the requested complexities explored, in hundredths: 0.25 gives a 7 x 7
\* room with three scattered walls, retried at 0.15 and 0.05 (6 x 6 with two
\* walls and with one); 0.13 gives a 6 x 6 room with two, retried at 0.03
ComplexityInputs == {0, 13, 25}

NoLevel == [width |-> 0]

InitGen ==
  /\ grid = << >>
  /\ doorPosition = NoPos
  /\ call = Idle
  /\ ret = NoResult
  /\ home = NoHome
  /\ \E c \in ComplexityInputs :
       gen = [pc |-> "generate", requested |-> c, complexity |-> c,
              attempts |-> 0, level |-> NoLevel]

\* the walled grids an attempt at complexity can reach before the door is
\* placed
AttemptOutcomes(complexity) ==
  LET st == settings(complexity)
  IN UNION {addInteriorWalls(shaped, st) :
              shaped \in RoomShapeOutcomes(addOuterWalls(EmptyGrid(st.width, st.height)), st)}

\* mutant: the level is described by the settings of the first attempt
GenerateLevelFirstSettings ==
  /\ gen.pc = "generate"
  /\ LET st == settings(gen.complexity)
         first == settings(gen.requested)
     IN \E walled \in AttemptOutcomes(gen.complexity) :
          \E door \in placeDoor(walled) :
            LET g == [walled EXCEPT ![door[2]][door[1]] = "door"]
            IN IF ~validateLevel(g, door, st)
                 THEN gen' = [gen EXCEPT !.complexity = retryComplexity(gen.complexity),
                                         !.attempts = @ + 1]
                 ELSE gen' = [gen EXCEPT !.pc = "done",
                                         !.level = [width |-> first.width,
                                                    height |-> first.height,
                                                    walls |-> wallsOf(g),
                                                    doorPosition |-> door,
                                                    inventory |-> first.inventory]]
  /\ UNCHANGED <<grid, doorPosition, call, ret, home>>

\* one call of generateLevel(complexity, levelNumber): either it returns the
\* level (pc "done"), or validation fails and it calls itself with the
\* reduced complexity, whose result it returns unchanged
GenerateLevel ==
  /\ gen.pc = "generate"
  /\ LET st == settings(gen.complexity)
     IN \E walled \in AttemptOutcomes(gen.complexity) :
          \E door \in placeDoor(walled) :
            LET g == [walled EXCEPT ![door[2]][door[1]] = "door"]
            IN IF ~validateLevel(g, door, st)
                 THEN gen' = [gen EXCEPT !.complexity = retryComplexity(gen.complexity),
                                         !.attempts = @ + 1]
                 ELSE gen' = [gen EXCEPT !.pc = "done",
                                         !.level = [width |-> st.width,
                                                    height |-> st.height,
                                                    walls |-> wallsOf(g),
                                                    doorPosition |-> door,
                                                    inventory |-> st.inventory]]
  /\ UNCHANGED <<grid, doorPosition, call, ret, home>>

\* initializeGrid: the play grid is rebuilt from the level's walls and door
InitializeGrid ==
  /\ gen.pc = "done"
  /\ grid' = Stamp(Stamp(EmptyGrid(gen.level.width, gen.level.height),
                         gen.level.walls, "wall"),
                   {gen.level.doorPosition}, "door")
  /\ doorPosition' = gen.level.doorPosition
  /\ home' = [home EXCEPT !.inventory = gen.level.inventory,
                           !.sofas = << >>,
                           !.nextSofaId = 1,
                           !.score = 0]
  /\ gen' = [gen EXCEPT !.pc = "playing"]
  /\ UNCHANGED <<call, ret>>

NextGen == GenerateLevel \/ InitializeGrid

SpecGen == InitGen /\ [][NextGen]_vars

\* Math.floor(10 + c * 20) for a complexity c in hundredths
MinimumEmpty(c) == (1000 + 20 * c) \div 100

\* the empty cells reached from the door through empty cells
ReachableFromDoor == ConnectedTo(doorPosition) \ {doorPosition}

DoorCells == {p \in GridCells(grid) : grid[p[2]][p[1]] = "door"}

(***************************************************************************)
(* C6 - as claimed: the grid rebuilt from the returned level has at least  *)
(* floor(10 + 20 * complexityFactor) empty cells reachable from the door,  *)
(* complexityFactor being the argument of the call, and one door cell.     *)
(***************************************************************************)
C6_MinimumOfRequestedComplexity ==
  gen.pc = "playing" =>
    /\ Cardinality(ReachableFromDoor) >= MinimumEmpty(gen.requested)
    /\ Cardinality(DoorCells) = 1

\* C6 as amended: the grid rebuilt from the returned level has at least
\* floor(10 + 20 * c') empty cells reachable from the door, c' being the
\* complexity of the attempt that passed validation (the argument lowered by
\* 0.1 per failed attempt), and exactly one door cell.
C6_MinimumOfPassingAttempt ==
  gen.pc = "playing" =>
    /\ Cardinality(ReachableFromDoor) >= MinimumEmpty(gen.complexity)
    /\ Cardinality(DoorCells) = 1

\* a level returned after a retry, with fewer reachable empty cells than the
\* requested complexity asks for and an empty cell the door does not reach
C6_Witness ==
  /\ gen.pc = "playing"
  /\ gen.attempts >= 1
  /\ Cardinality(ReachableFromDoor) < MinimumEmpty(gen.requested)
  /\ \E p \in GridCells(grid) : IsEmptyCell(p) /\ p \notin ReachableFromDoor

(***************************************************************************)
(* C7 - termination: every attempt has an outcome (the scatter loop finds  *)
(* its empty cells), and it either returns the level or is followed by an  *)
(* attempt at max(0, complexity - 0.1), which is strictly lower and not    *)
(* negative: so no attempt at complexity 0 fails, and the number of        *)
(* retries never exceeds the requested complexity divided by 0.1, rounded  *)
(* up.                                                                     *)
(***************************************************************************)
C7_GenerationTerminates ==
  /\ [][gen.pc = "generate" =>
          \/ gen'.pc = "done"
          \/ /\ gen'.pc = "generate"
             /\ gen'.complexity = Max(0, gen.complexity - 10)
             /\ gen'.complexity < gen.complexity
             /\ gen'.complexity >= 0
             /\ gen'.attempts = gen.attempts + 1]_vars
  /\ [](gen.pc = "generate" => AttemptOutcomes(gen.complexity) # {})
  /\ [](gen.attempts <= (gen.requested + 9) \div 10)

\* a level returned by the third attempt
C7_Witness ==
  /\ gen.pc = "done"
  /\ gen.attempts = 2
  /\ gen.complexity = gen.requested - 20

(***************************************************************************)
(* C8 - generateLevel(0, n) never takes the retry branch, and returns a    *)
(* 6 x 6 level with a single door on the outer ring and an inventory of at *)
(* least 2 single, 1 rectangular and 1 l-shaped piece.                     *)
(***************************************************************************)
C8_TrivialLevelAlwaysSucceeds ==
  gen.requested = 0 =>
    /\ gen.attempts = 0
    /\ gen.complexity = 0
    /\ gen.pc # "generate" =>
         /\ gen.level.width = 6
         /\ gen.level.height = 6
         /\ gen.level.inventory["single"] >= 2
         /\ gen.level.inventory["rectangular"] >= 1
         /\ gen.level.inventory["l-shaped"] >= 1
         /\ LET d == gen.level.doorPosition
            IN /\ d[1] \in 0..5 /\ d[2] \in 0..5
               /\ (d[1] \in {0, 5} \/ d[2] \in {0, 5})
               /\ d \notin gen.level.walls
    /\ gen.pc = "playing" => DoorCells = {gen.level.doorPosition}

\* the level of complexity 0 whose scattered wall stands next to the cell
\* the door opens on
C8_Witness ==
  /\ gen.requested = 0
  /\ gen.pc = "playing"
  /\ Cardinality(gen.level.walls) = 20
  /\ \E p \in ReachableFromDoor :
       /\ Orthogonal(p, doorPosition)
       /\ \E w \in gen.level.walls :
            Orthogonal(p, w) /\ w[1] \in 1..4 /\ w[2] \in 1..4

\* the cells of the outer ring of a width x height grid
OuterRing(width, height) ==
  {p \in (0..(width - 1)) \X (0..(height - 1)) :
     p[1] = 0 \/ p[1] = width - 1 \/ p[2] = 0 \/ p[2] = height - 1}

(***************************************************************************)
(* C18 - an attempt that follows a failed validation runs at               *)
(* max(0, c - 0.1), and the level returned is the one of the attempt that  *)
(* passed validateLevel, c' being that attempt's complexity: its width and *)
(* height are floor(6 + 6 * c'), its inventory is the one derived from c', *)
(* its walls are the ring and the floor((width - 2) * (height - 2) *       *)
(* (0.1 + 0.2 * c')) walls scattered on a fresh grid, and the door reaches *)
(* at least floor(10 + 20 * c') empty cells.                               *)
(***************************************************************************)
C18_LevelOfThePassingAttempt ==
  /\ [][(gen.pc = "generate" /\ gen'.pc = "generate")
          => gen'.complexity = Max(0, gen.complexity - 10)]_vars
  /\ [][(gen.pc = "generate" /\ gen'.pc = "done")
          => gen'.complexity = gen.complexity]_vars
  /\ [](gen.pc \in {"done", "playing"} =>
          LET side == (600 + 6 * gen.complexity) \div 100
              area6 == side * side * 6
              scale == 1000 - 3 * gen.complexity
          IN /\ gen.level.width = side
             /\ gen.level.height = side
             /\ gen.level.inventory["single"]
                  = Max(2, (area6 * scale) \div 100000)
             /\ gen.level.inventory["rectangular"]
                  = Max(1, (side * side * 4 * scale) \div 100000)
             /\ gen.level.inventory["l-shaped"]
                  = Max(1, (side * side * 3 * scale) \div 100000)
             /\ Cardinality(gen.level.walls \ OuterRing(side, side))
                  = ((side - 2) * (side - 2) * (100 + 2 * gen.complexity)) \div 1000)
  /\ [](gen.pc = "playing" =>
          /\ Cardinality(ReachableFromDoor) >= MinimumEmpty(gen.complexity)
          /\ validateLevel(grid, doorPosition, settings(gen.complexity)))

\* a level returned by a retry, smaller than the requested complexity asks
C18_Witness ==
  /\ gen.pc = "playing"
  /\ gen.attempts >= 1
  /\ gen.level.width = 6
  /\ (600 + 6 * gen.requested) \div 100 = 7
  /\ Width(grid) = 6 /\ Height(grid) = 6
  /\ Cardinality(gen.level.walls \ OuterRing(6, 6)) < 3

(***************************************************************************)
(* The room-building steps on their own, next to the generator: the shape  *)
(* step on the ring-walled grids of complexities above 0.3, and the door   *)
(* placement followed by validation on every ring-walled room of at most   *)
(* MaxInteriorCells cells inside the ring.                                 *)
(***************************************************************************)
\* complexities of the shape step: 0.31 (7 x 7, L), 0.6 (9 x 9, L or U),
\* 0.75 (10 x 10, dividers)
ShapeInputs == {31, 60, 75}

\* dividers drawn per room
MaxDividers == 1

\* cells inside the ring of the rooms on which the door is placed
MaxInteriorCells == 9

\* values of settings.minEmptySpaces tried on these rooms
DoorMinimums == {0, 2}

Min(a, b) == IF a < b THEN a ELSE b

InitShape ==
  /\ \E c \in ShapeInputs :
       /\ gen = [pc |-> "shape", requested |-> c, complexity |-> c,
                 attempts |-> 0, level |-> NoLevel]
       /\ grid = addOuterWalls(EmptyGrid(settings(c).width, settings(c).height))
  /\ doorPosition = NoPos
  /\ call = Idle
  /\ ret = NoResult
  /\ home = NoHome

InitDoor ==
  /\ \E w \in 3..(MaxInteriorCells + 2), h \in 3..(MaxInteriorCells + 2) :
       /\ (w - 2) * (h - 2) <= MaxInteriorCells
       /\ \E S \in SUBSET ((1..(w - 2)) \X (1..(h - 2))) :
            grid = Stamp(addOuterWalls(EmptyGrid(w, h)), S, "wall")
  /\ gen = [pc |-> "door", requested |-> 0, complexity |-> 0,
            attempts |-> 0, level |-> NoLevel]
  /\ doorPosition = NoPos
  /\ call = Idle
  /\ ret = NoResult
  /\ home = NoHome

InitBuild == InitGen \/ InitShape \/ InitDoor

\* createShapedRoom(grid, settings); ret.cells are the cells it writes
CreateShapedRoom ==
  /\ gen.pc = "shape"
  /\ gen.complexity > 30
  /\ gen.complexity <= 70
  /\ \E isUShape \in (IF gen.complexity > 50 THEN {TRUE, FALSE} ELSE {FALSE}) :
       /\ grid' = createShapedRoom(grid, isUShape)
       /\ ret' = [NoResult EXCEPT
                    !.cells = shapedRoomCells(Width(grid), Height(grid), isUShape)]
  /\ gen' = [gen EXCEPT !.pc = "shaped"]
  /\ call' = [Idle EXCEPT !.op = "createShapedRoom"]
  /\ UNCHANGED <<doorPosition, home>>

\* one iteration of the loop of createComplexRoom; ret.cells are the cells
\* the divider writes
CreateComplexRoomStep ==
  /\ gen.pc = "shape"
  /\ gen.complexity > 70
  /\ call.iterations < Min((200 + gen.complexity * 3) \div 100, MaxDividers)
  /\ \E S \in DividerCells(Width(grid), Height(grid)) :
       /\ grid' = Stamp(grid, S, "wall")
       /\ ret' = [NoResult EXCEPT !.cells = S]
  /\ call' = [call EXCEPT !.op = "createComplexRoom", !.iterations = @ + 1]
  /\ UNCHANGED <<doorPosition, gen, home>>

\* placeDoor(grid) followed by validateLevel(grid, doorPosition, settings);
\* ret.flag is the verdict
PlaceDoorAndValidate ==
  /\ gen.pc = "door"
  /\ \E door \in placeDoor(grid), m \in DoorMinimums :
       LET g == [grid EXCEPT ![door[2]][door[1]] = "door"]
       IN /\ grid' = g
          /\ doorPosition' = door
          /\ ret' = [NoResult EXCEPT
                       !.flag = validateLevel(g, door, [minEmptySpaces |-> m])]
  /\ gen' = [gen EXCEPT !.pc = "validated"]
  /\ call' = [Idle EXCEPT !.op = "validateLevel"]
  /\ UNCHANGED home

NextBuild ==
  \/ GenerateLevel
  \/ InitializeGrid
  \/ CreateShapedRoom
  \/ CreateComplexRoomStep
  \/ PlaceDoorAndValidate

SpecBuild == InitBuild /\ [][NextBuild]_vars

\* p is on the outer ring of the grid and no corner of it
NonCornerRing(p) ==
  \/ p[1] \in {0, Width(grid) - 1} /\ p[2] \in 1..(Height(grid) - 2)
  \/ p[2] \in {0, Height(grid) - 1} /\ p[1] \in 1..(Width(grid) - 2)

\* the cell inside the ring that the non-corner ring cell p touches
InteriorNeighbour(p) ==
  IF p[1] = 0 THEN <<1, p[2]>>
  ELSE IF p[1] = Width(grid) - 1 THEN <<Width(grid) - 2, p[2]>>
  ELSE IF p[2] = 0 THEN <<p[1], 1>>
  ELSE <<p[1], Height(grid) - 2>>

ProperDoor ==
  /\ NonCornerRing(doorPosition)
  /\ IsEmptyCell(InteriorNeighbour(doorPosition))

\* no non-corner ring cell touches an empty interior cell
NoCandidate ==
  \A p \in GridCells(grid) : NonCornerRing(p) => ~IsEmptyCell(InteriorNeighbour(p))

\* no cell next to the door is empty
DoorEnclosed ==
  \A q \in GridCells(grid) : Orthogonal(q, doorPosition) => ~IsEmptyCell(q)

(***************************************************************************)
(* C19 - the door of every returned level is a non-corner cell of the      *)
(* outer ring whose interior neighbour is empty; a grid that passes        *)
(* validateLevel has such a door, a grid on which no candidate qualified   *)
(* gets the door at (0, floor(height / 2)) and fails validateLevel, and so *)
(* does every grid whose door has no empty cell next to it.                *)
(***************************************************************************)
C19_DoorOpensOnTheRoom ==
  /\ gen.pc = "playing" => (ProperDoor /\ ~NoCandidate /\ ~DoorEnclosed)
  /\ gen.pc = "validated" =>
       /\ ret.flag => ProperDoor
       /\ NoCandidate => (doorPosition = <<0, Height(grid) \div 2>> /\ ~ret.flag)
       /\ DoorEnclosed => ~ret.flag

\* the fall-back door on a room whose inner border is all wall, with an
\* empty cell left in the middle: rejected even with a minimum of 0
C19_Witness ==
  /\ gen.pc = "validated"
  /\ NoCandidate
  /\ doorPosition = <<0, Height(grid) \div 2>>
  /\ ~ret.flag
  /\ \E p \in GridCells(grid) : IsEmptyCell(p)

\* a room that passes validation through a door on its right or bottom side
C19_WitnessAccepted ==
  /\ gen.pc = "validated"
  /\ ret.flag
  /\ ProperDoor
  /\ (doorPosition[1] = Width(grid) - 1 \/ doorPosition[2] = Height(grid) - 1)
  /\ ~NoCandidate

(***************************************************************************)
(* C20 - in every returned level every wall position lies in               *)
(* [0, width) x [0, height), every cell of the outer ring but the door is  *)
(* in walls and the door is not; the shape step writes no cell of the      *)
(* outer ring, and every grid that leaves the scatter step still has its   *)
(* outer ring all wall.                                                    *)
(***************************************************************************)
C20_RingStaysWall ==
  /\ gen.pc \in {"done", "playing"} =>
       LET width == gen.level.width
           height == gen.level.height
       IN /\ \A p \in gen.level.walls :
               p[1] \in 0..(width - 1) /\ p[2] \in 0..(height - 1)
          /\ (OuterRing(width, height) \ {gen.level.doorPosition}) \subseteq gen.level.walls
          /\ gen.level.doorPosition \notin gen.level.walls
          /\ gen.level.doorPosition \in OuterRing(width, height)
  /\ gen.pc = "generate" =>
       \A walled \in AttemptOutcomes(gen.complexity) :
         \A p \in OuterRing(Width(walled), Height(walled)) : walled[p[2]][p[1]] = "wall"
  /\ gen.pc \in {"shape", "shaped"} =>
       /\ ret.cells \subseteq GridCells(grid)
       /\ ret.cells \cap OuterRing(Width(grid), Height(grid)) = {}
       /\ \A p \in OuterRing(Width(grid), Height(grid)) : grid[p[2]][p[1]] = "wall"
       /\ \A p \in ret.cells : grid[p[2]][p[1]] = "wall"

\* a returned level with a scattered wall on the inner border, next to the
\* ring
C20_Witness ==
  /\ gen.pc = "done"
  /\ gen.level.width = 7
  /\ \E p \in gen.level.walls :
       /\ p[1] = 1
       /\ p[2] \in 1..5
       /\ <<0, p[2]>> \in gen.level.walls
  /\ gen.level.doorPosition[1] = 0

\* a divider, and a partition, that run along the whole inner width
C20_WitnessShape ==
  /\ gen.pc \in {"shape", "shaped"}
  /\ \E p \in ret.cells : \E q \in ret.cells :
       /\ p[2] = q[2]
       /\ q[1] = Width(grid) - 2
       /\ p[1] <= 2

(***************************************************************************)
(* The depth-first enumeration of the third pass, for one target.          *)
(***************************************************************************)
\* one iteration of the loop over sofaAdjacentEmptyCells, up to the call of
\* findAllPaths: ret.path is pathToTarget, ret.paths is allPaths
CallFindAllPaths ==
  /\ call.op = "idle"
  /\ LET seed == doorAdjacentEmpty(grid, doorPosition)
         targets == sofaAdjacentEmptyCells(1, sofaPositions(grid), grid)
     IN /\ seed # << >>
        /\ \E k \in 1..Len(targets) :
             LET targetCell == targets[k]
                 pathToTarget == findPath(seed, targetCell, grid)
             IN /\ pathToTarget # NoPath
                /\ call' = [Idle EXCEPT !.op = "findAllPaths",
                                        !.start = seed,
                                        !.target = targetCell]
                /\ ret' = [NoResult EXCEPT
                             !.path = pathToTarget,
                             !.paths = findAllPaths(seed, targetCell, {}, << >>,
                                                    Len(pathToTarget) * 2, grid)]
  /\ UNCHANGED <<grid, doorPosition, gen, home>>

NextPaths == CallFindAllPaths

SpecPaths == InitCrit /\ [][NextPaths]_vars

\* no cell occurs twice in the path
IsSimple(path) ==
  \A i \in 1..Len(path) : \A j \in 1..Len(path) : path[i] = path[j] => i = j

(***************************************************************************)
(* C23 - every path the depth-first search enumerates from the seed to a   *)
(* piece-adjacent empty cell is simple, runs only through empty cells, and *)
(* has at most twice as many cells as the path findPath returns for that   *)
(* target.                                                                 *)
(***************************************************************************)
C23_EnumeratedPathsWithinTwiceShortest ==
  call.op = "findAllPaths" =>
    \A k \in 1..Len(ret.paths) :
      /\ IsSimple(ret.paths[k])
      /\ \A c \in Range(ret.paths[k]) : IsEmptyCell(c)
      /\ Len(ret.paths[k]) <= 2 * Len(ret.path)

\* what the search does guarantee: simple paths through empty cells from the
\* seed to the target, of at most 2 * length + 2 cells
C23_EnumeratedPathsWithinCap ==
  call.op = "findAllPaths" =>
    \A k \in 1..Len(ret.paths) :
      /\ IsSimple(ret.paths[k])
      /\ \A c \in Range(ret.paths[k]) : IsEmptyCell(c)
      /\ ret.paths[k][1] = call.start
      /\ ret.paths[k][Len(ret.paths[k])] = call.target
      /\ \A i \in 1..(Len(ret.paths[k]) - 1) :
           Orthogonal(ret.paths[k][i], ret.paths[k][i + 1])
      /\ Len(ret.paths[k]) <= 2 * Len(ret.path) + 2

(***************************************************************************)
(* The dividers of createComplexRoom, each kept with the draws that made   *)
(* it, on the ring-walled grid of a complexity above 0.7.                  *)
(***************************************************************************)
\* 0.75 gives a 10 x 10 grid and floor(2 + 0.75 * 3) = 4 dividers
DividerInputs == {75}

\* dividers followed per room
MaxRoomDividers == 2

InitDividers ==
  /\ \E c \in DividerInputs :
       /\ gen = [pc |-> "dividers", requested |-> c, complexity |-> c,
                 attempts |-> 0, level |-> NoLevel, dividers |-> << >>]
       /\ grid = addOuterWalls(EmptyGrid(settings(c).width, settings(c).height))
  /\ doorPosition = NoPos
  /\ call = Idle
  /\ ret = NoResult
  /\ home = NoHome

\* one iteration of the loop of createComplexRoom
StampDivider ==
  /\ gen.pc = "dividers"
  /\ Len(gen.dividers) < Min((200 + gen.complexity * 3) \div 100, MaxRoomDividers)
  /\ \E d \in DividerDraws(Width(grid), Height(grid)) :
       /\ grid' = Stamp(grid, DividerWalls(d), "wall")
       /\ gen' = [gen EXCEPT !.dividers = Append(@, d)]
  /\ UNCHANGED <<doorPosition, call, ret, home>>

NextDividers == StampDivider

SpecDividers == InitDividers /\ [][NextDividers]_vars

\* the cells from the start to the end coordinate of the divider d
DividerSpan(d) ==
  IF d.isHorizontal
    THEN {<<x, d.line>> : x \in d.start..d.end}
    ELSE {<<d.line, y>> : y \in d.start..d.end}

(***************************************************************************)
(* C21 - once the dividers are stamped, the span of each divider from its  *)
(* start to its end coordinate holds exactly one cell that is not wall.    *)
(***************************************************************************)
C21_EveryDividerKeepsOneGap ==
  (gen.pc = "dividers"
     /\ Len(gen.dividers) = Min((200 + gen.complexity * 3) \div 100, MaxRoomDividers))
    => \A k \in 1..Len(gen.dividers) :
         Cardinality({c \in DividerSpan(gen.dividers[k]) :
                        grid[c[2]][c[1]] # "wall"}) = 1

\* what one iteration does guarantee: right after a divider is stamped, its
\* span holds at most one cell that is not wall, the gap it drew
C21_DividerStampedWithItsGap ==
  [][gen.pc = "dividers" /\ Len(gen'.dividers) = Len(gen.dividers) + 1
       => LET d == gen'.dividers[Len(gen'.dividers)]
              gap == IF d.isHorizontal THEN <<d.gapPos, d.line>>
                     ELSE <<d.line, d.gapPos>>
          IN /\ gap \in DividerSpan(d)
             /\ \A c \in DividerSpan(d) \ {gap} : grid'[c[2]][c[1]] = "wall"
             /\ grid'[gap[2]][gap[1]] = grid[gap[2]][gap[1]]]_vars

(***************************************************************************)
(* The inventory derived from the complexity, for two complexities in      *)
(* turn.                                                                   *)
(***************************************************************************)
\* the complexities 0, 0.05, ..., 1
ComplexityRange == {5 * k : k \in 0..20}

InitInventory ==
  /\ gen = [pc |-> "inventory", requested |-> 0, complexity |-> 0,
            attempts |-> 0, level |-> NoLevel, shipped |-> << >>]
  /\ grid = << >>
  /\ doorPosition = NoPos
  /\ call = Idle
  /\ ret = NoResult
  /\ home = NoHome

\* the settings generateLevel derives from a complexity, first for one
\* complexity and then for a higher one: shipped keeps both inventories
DeriveInventory ==
  /\ gen.pc = "inventory"
  /\ Len(gen.shipped) < 2
  /\ \E c \in ComplexityRange :
       /\ Len(gen.shipped) = 1 => c > gen.shipped[1].complexity
       /\ gen' = [gen EXCEPT
                    !.complexity = c,
                    !.shipped = Append(@, [complexity |-> c,
                                           inventory |-> settings(c).inventory])]
  /\ UNCHANGED <<grid, doorPosition, call, ret, home>>

NextInventory == DeriveInventory

SpecInventory == InitInventory /\ [][NextInventory]_vars

(***************************************************************************)
(* C22 - for complexities c1 < c2, each of the single, rectangular and     *)
(* l-shaped counts derived for c2 is no greater than the count derived for *)
(* c1.                                                                     *)
(***************************************************************************)
C22_InventoryFallsWithComplexity ==
  Len(gen.shipped) = 2 =>
    \A t \in SofaTypes : gen.shipped[2].inventory[t] <= gen.shipped[1].inventory[t]

(***************************************************************************)
(* The page (Home).  Its state is the grid, the current level (gen.level)  *)
(* and the record home.  A message is modelled by the kind of its text     *)
(* and the cell or number the text names.                                  *)
(***************************************************************************)
Rotations == {0, 90, 180, 270}

\* the page's isInBounds: against the size of the current level
isInBoundsOfLevel(pos, level) ==
  pos[1] >= 0 /\ pos[1] < level.width /\ pos[2] >= 0 /\ pos[2] < level.height

\* mutant: every cell of the level counts as empty
isCellEmptyInBounds(pos, g, level) == isInBoundsOfLevel(pos, level)

isCellEmpty(pos, g, level) ==
  IF ~isInBoundsOfLevel(pos, level) THEN FALSE ELSE g[pos[2]][pos[1]] = "empty"

getSofaCells(type, pos, rotation) ==
  IF type = "single" THEN <<pos>>
  ELSE IF type = "rectangular"
    THEN IF rotation = 0 \/ rotation = 180
           THEN <<pos, <<pos[1] + 1, pos[2]>>>>
           ELSE <<pos, <<pos[1], pos[2] + 1>>>>
  ELSE IF rotation = 0
    THEN <<pos, <<pos[1] + 1, pos[2]>>, <<pos[1], pos[2] + 1>>>>
  ELSE IF rotation = 90
    THEN <<pos, <<pos[1], pos[2] - 1>>, <<pos[1] + 1, pos[2]>>>>
  ELSE IF rotation = 180
    THEN <<pos, <<pos[1] - 1, pos[2]>>, <<pos[1], pos[2] - 1>>>>
  ELSE <<pos, <<pos[1] - 1, pos[2]>>, <<pos[1], pos[2] + 1>>>>

\* mutant: the inventory is not looked at
canPlaceSofaAnyInventory(type, pos, rotation, inventory, g, level) ==
  \A cell \in Range(getSofaCells(type, pos, rotation)) : isCellEmpty(cell, g, level)

canPlaceSofa(type, pos, rotation, inventory, g, level) ==
  IF inventory[type] <= 0 THEN FALSE
  ELSE \A cell \in Range(getSofaCells(type, pos, rotation)) : isCellEmpty(cell, g, level)

\* the tag placeSofa writes; `sofa-l-${rotation}` for the l-shaped piece
sofaCellType(type, rotation) ==
  IF type = "single" THEN "sofa-single"
  ELSE IF type = "rectangular"
    THEN IF rotation = 0 \/ rotation = 180 THEN "sofa-rect-h" ELSE "sofa-rect-v"
  ELSE IF rotation = 0 THEN "sofa-l-0"
  ELSE IF rotation = 90 THEN "sofa-l-90"
  ELSE IF rotation = 180 THEN "sofa-l-180"
  ELSE "sofa-l-270"

\* floodFillSofa of checkConstraints: the cells pushed for this sofa, in the
\* order of the pushes; taken are the cells that got an id before
RECURSIVE floodFillSofa(_, _, _, _, _, _)
floodFillSofa(pos, sofaType, cells, taken, g, level) ==
  IF \/ ~isInBoundsOfLevel(pos, level)
     \/ ~startsWithSofa(g[pos[2]][pos[1]])
     \/ pos \in taken \cup Range(cells)
     \/ g[pos[2]][pos[1]] # sofaType
    THEN cells
  ELSE
    LET c0 == Append(cells, pos)
        c1 == floodFillSofa(Step(pos, <<1, 0>>), sofaType, c0, taken, g, level)
        c2 == floodFillSofa(Step(pos, <<-1, 0>>), sofaType, c1, taken, g, level)
        c3 == floodFillSofa(Step(pos, <<0, 1>>), sofaType, c2, taken, g, level)
    IN floodFillSofa(Step(pos, <<0, -1>>), sofaType, c3, taken, g, level)

\* the first pass of checkConstraints: the values of the sofaCells map in
\* the order of insertion
RECURSIVE sofaCells(_, _, _, _, _)
sofaCells(i, cells, taken, g, level) ==
  IF i > Len(cells) THEN << >>
  ELSE IF startsWithSofa(g[cells[i][2]][cells[i][1]]) /\ cells[i] \notin taken
    THEN LET sofaCellsForThisSofa ==
               floodFillSofa(cells[i], g[cells[i][2]][cells[i][1]], << >>, taken, g, level)
         IN <<sofaCellsForThisSofa>>
              \o sofaCells(i + 1, cells, taken \cup Range(sofaCellsForThisSofa), g, level)
  ELSE sofaCells(i + 1, cells, taken, g, level)

\* doorNeighbors.find(...): the first in-bounds empty neighbour of the door
checkDoorAdjacentEmpty(currentGrid, level) ==
  LET ok == {d \in 1..Len(directions) :
               LET pos == Step(level.doorPosition, directions[d])
               IN isInBoundsOfLevel(pos, level) /\ currentGrid[pos[2]][pos[1]] = "empty"}
  IN IF ok = {} THEN NoPos
     ELSE Step(level.doorPosition, directions[CHOOSE d \in ok : \A e \in ok : d <= e])

\* the value of isSofaReachable when the loop over the cells of one sofa ends
isSofaReachable(cells, seed, reachablePositions, currentGrid, level) ==
  \E i \in 1..Len(cells) :
    /\ isAdjacentToReachable(cells[i], reachablePositions, currentGrid)
    /\ \E d \in 1..Len(directions) :
         LET adjacentPos == Step(cells[i], directions[d])
         IN /\ isInBoundsOfLevel(adjacentPos, level)
            /\ currentGrid[adjacentPos[2]][adjacentPos[1]] = "empty"
            /\ positionKey(adjacentPos) \in reachablePositions
            /\ findPath(seed, adjacentPos, currentGrid) # NoPath

\* checkConstraints: the value returned and the message set
checkConstraints(currentGrid, level) ==
  LET seed == checkDoorAdjacentEmpty(currentGrid, level)
  IN IF seed = NoPos
       THEN [result |-> FALSE, message |-> <<"door blocked">>]
     ELSE
       LET reachablePositions == findAllReachablePositions(seed, currentGrid)
           sofas == sofaCells(1, RowMajor(currentGrid), {}, currentGrid, level)
           unreachable == {k \in 1..Len(sofas) :
                             ~isSofaReachable(sofas[k], seed, reachablePositions,
                                              currentGrid, level)}
       IN IF unreachable # {}
            THEN [result |-> FALSE,
                  message |-> <<"not reachable",
                                sofas[CHOOSE k \in unreachable :
                                        \A j \in unreachable : j <= k][1]>>]
            ELSE [result |-> TRUE, message |-> <<"good job">>]

\* the grid with the cells of the sequence cells set to tag
WriteCells(g, cells, tag) == Stamp(g, Range(cells), tag)

\* placeSofa(type, pos, rotation) on the page state h with grid g: the grid
\* and the page state it leaves, whether the piece was placed, and the value
\* of the checkConstraints call it ends with
placeSofa(type, pos, rotation, g, h, level) ==
  IF ~canPlaceSofa(type, pos, rotation, h.inventory, g, level)
    THEN [grid |-> g,
          home |-> [h EXCEPT !.message = IF h.inventory[type] <= 0
                                           THEN <<"no more", type>>
                                           ELSE <<"can't place">>],
          placed |-> FALSE,
          result |-> FALSE]
  ELSE
    LET newSofa == [type |-> type, position |-> pos, rotation |-> rotation,
                    id |-> h.nextSofaId]
        cells == getSofaCells(type, pos, rotation)
        newGrid == WriteCells(g, cells, sofaCellType(type, rotation))
        checked == checkConstraints(newGrid, level)
    IN [grid |-> newGrid,
        home |-> [h EXCEPT !.inventory = [h.inventory EXCEPT ![type] = @ - 1],
                           !.sofas = Append(@, newSofa),
                           !.nextSofaId = @ + 1,
                           !.score = @ + Len(cells),
                           !.message = checked.message],
        placed |-> TRUE,
        result |-> checked.result]

\* the flood fill of removeSofa on newGrid
RECURSIVE floodFill(_, _, _, _)
floodFill(pos, type, newGrid, level) ==
  IF ~isInBoundsOfLevel(pos, level) \/ newGrid[pos[2]][pos[1]] # type THEN newGrid
  ELSE
    LET g0 == [newGrid EXCEPT ![pos[2]][pos[1]] = "empty"]
        g1 == floodFill(Step(pos, <<1, 0>>), type, g0, level)
        g2 == floodFill(Step(pos, <<-1, 0>>), type, g1, level)
        g3 == floodFill(Step(pos, <<0, 1>>), type, g2, level)
    IN floodFill(Step(pos, <<0, -1>>), type, g3, level)

\* the inventory key of a sofa tag
sofaTypeOfTag(cellType) ==
  IF cellType = "sofa-single" THEN "single"
  ELSE IF cellType \in {"sofa-rect-h", "sofa-rect-v"} THEN "rectangular"
  ELSE IF cellType \in {"sofa-l-0", "sofa-l-90", "sofa-l-180", "sofa-l-270"}
    THEN "l-shaped"
  ELSE "single"

\* mutant: only the cells of single pieces are counted
countSofaCellsSingle(g) ==
  Cardinality({p \in GridCells(g) : g[p[2]][p[1]] = "sofa-single"})

\* the number of cells of g that carry a sofa tag
countSofaCells(g) == Cardinality({p \in GridCells(g) : startsWithSofa(g[p[2]][p[1]])})

\* removeSofa(x, y)
removeSofa(x, y, g, h, level) ==
  LET cellType == g[y][x]
  IN IF ~startsWithSofa(cellType) THEN [grid |-> g, home |-> h]
     ELSE
       LET sofaType == sofaTypeOfTag(cellType)
           newGrid == floodFill(<<x, y>>, cellType, g, level)
           hasTag(sofa) ==
             \E cell \in Range(getSofaCells(sofa.type, sofa.position, sofa.rotation)) :
               g[cell[2]][cell[1]] = cellType
           removedSofas == SelectSeq(h.sofas, hasTag)
           updatedSofas == SelectSeq(h.sofas, LAMBDA sofa : ~hasTag(sofa))
       IN [grid |-> newGrid,
           home |-> [h EXCEPT
                       !.inventory = IF Len(removedSofas) > 0
                                       THEN [h.inventory EXCEPT ![sofaType] = @ + 1]
                                       ELSE h.inventory,
                       !.sofas = updatedSofas,
                       !.score = countSofaCells(newGrid),
                       !.message = <<"removed">>]]

\* mutant: the dialog opens whatever checkConstraints returns
checkSolutionUnchecked(g, h, level) ==
  [h EXCEPT !.criticalPathCells = identifyCriticalPaths(g, level.doorPosition),
            !.showCriticalPaths = FALSE,
            !.showSuccessDialog = TRUE]

\* checkSolution: the page state it leaves
checkSolution(g, h, level) ==
  LET checked == checkConstraints(g, level)
  IN IF ~checked.result
       THEN [h EXCEPT !.message = checked.message,
                      !.showCriticalPaths = FALSE,
                      !.criticalPathCells = {}]
     ELSE
       LET criticalPaths == identifyCriticalPaths(g, level.doorPosition)
           fillableEmptyCells ==
             Cardinality({p \in GridCells(g) :
                            /\ g[p[2]][p[1]] = "empty"
                            /\ positionKey(p) \notin criticalPaths})
       IN IF fillableEmptyCells <= 3
            THEN [h EXCEPT !.message = checked.message,
                           !.criticalPathCells = criticalPaths,
                           !.showCriticalPaths = FALSE,
                           !.showSuccessDialog = TRUE]
            ELSE [h EXCEPT !.message = <<"more", fillableEmptyCells>>,
                           !.criticalPathCells = criticalPaths,
                           !.showCriticalPaths = TRUE]

(***************************************************************************)
(* Play on small levels: a ring of walls around at most MaxPlayCells       *)
(* cells, the door on the left wall.  Which piece and rotation are         *)
(* selected and whether the page is in removing mode are inputs of a       *)
(* click: the handlers that set them can run at any time between clicks.   *)
(***************************************************************************)
MaxPlayCells == 4

\* pieces placed per level (caps nextSofaId)
MaxSofaId == 2

PlayInventory == [t \in SofaTypes |-> IF t = "single" THEN 2 ELSE 1]

PlayLevels ==
  {[width |-> w, height |-> h,
    walls |-> OuterRing(w, h) \ {d},
    doorPosition |-> d,
    inventory |-> PlayInventory] :
     w \in 3..(MaxPlayCells + 2), h \in 3..(MaxPlayCells + 2),
     d \in {0} \X (1..MaxPlayCells)}

InitPlay ==
  /\ \E level \in PlayLevels :
       /\ (level.width - 2) * (level.height - 2) <= MaxPlayCells
       /\ level.doorPosition[2] <= level.height - 2
       /\ gen = [pc |-> "done", requested |-> 0, complexity |-> 0,
                 attempts |-> 0, level |-> level]
  /\ grid = << >>
  /\ doorPosition = NoPos
  /\ call = Idle
  /\ ret = NoResult
  /\ home = NoHome

\* handleCellClick(x, y): isRemoving, selectedSofaType and selectedRotation
\* are whatever the selection handlers left
HandleCellClick ==
  /\ gen.pc = "playing"
  /\ \E pos \in GridCells(grid) :
       \/ /\ startsWithSofa(grid[pos[2]][pos[1]])
          /\ LET after == removeSofa(pos[1], pos[2], grid, home, gen.level)
             IN /\ grid' = after.grid
                /\ home' = after.home
          /\ call' = [Idle EXCEPT !.op = "removeSofa", !.position = pos]
          /\ ret' = NoResult
       \/ /\ grid[pos[2]][pos[1]] = "empty"
          /\ home.nextSofaId <= MaxSofaId
          /\ \E selectedSofaType \in SofaTypes, selectedRotation \in Rotations :
               LET after == placeSofa(selectedSofaType, pos, selectedRotation,
                                      grid, home, gen.level)
               IN /\ grid' = after.grid
                  /\ home' = after.home
                  /\ call' = [Idle EXCEPT !.op = "placeSofa",
                                          !.type = selectedSofaType,
                                          !.position = pos,
                                          !.rotation = selectedRotation]
                  /\ ret' = [NoResult EXCEPT !.flag = after.placed]
  /\ UNCHANGED <<doorPosition, gen>>

\* checkSolution(); identifyCriticalPaths is handed the page's grid
CheckSolution ==
  /\ gen.pc = "playing"
  /\ home' = checkSolution(grid, home, gen.level)
  /\ grid' = IF checkConstraints(grid, gen.level).result
               THEN gridAfterIdentifyCriticalPaths(grid, gen.level.doorPosition)
               ELSE grid
  /\ call' = [Idle EXCEPT !.op = "checkSolution"]
  /\ ret' = [NoResult EXCEPT !.flag = checkConstraints(grid, gen.level).result]
  /\ UNCHANGED <<doorPosition, gen>>

\* toggleCriticalPaths()
ToggleCriticalPaths ==
  /\ gen.pc = "playing"
  /\ IF home.showCriticalPaths
       THEN /\ home' = [home EXCEPT !.showCriticalPaths = FALSE]
            /\ grid' = grid
       ELSE /\ home' = [home EXCEPT
                          !.criticalPathCells =
                            identifyCriticalPaths(grid, gen.level.doorPosition),
                          !.showCriticalPaths = TRUE]
            /\ grid' = gridAfterIdentifyCriticalPaths(grid, gen.level.doorPosition)
  /\ call' = [Idle EXCEPT !.op = "toggleCriticalPaths"]
  /\ ret' = NoResult
  /\ UNCHANGED <<doorPosition, gen>>

\* onOpenChange of the success dialog: the dialog is dismissed
CloseSuccessDialog ==
  /\ gen.pc = "playing"
  /\ home.showSuccessDialog
  /\ home' = [home EXCEPT !.showSuccessDialog = FALSE]
  /\ call' = [Idle EXCEPT !.op = "setShowSuccessDialog"]
  /\ ret' = NoResult
  /\ UNCHANGED <<grid, doorPosition, gen>>

NextPlay == InitializeGrid \/ HandleCellClick

SpecPlay == InitPlay /\ [][NextPlay]_vars

NextSolve ==
  \/ InitializeGrid
  \/ HandleCellClick
  \/ CheckSolution
  \/ ToggleCriticalPaths
  \/ CloseSuccessDialog

\* the rooms at least as wide as high, the door beside the first row
InitSolve ==
  /\ InitPlay
  /\ gen.level.doorPosition = <<0, 1>>
  /\ gen.level.width >= gen.level.height

SpecSolve == InitSolve /\ [][NextSolve]_vars

\* the pieces of a type standing on the grid: its tagged cells over its size
PiecesOnGrid(type) ==
  Cardinality({p \in GridCells(grid) :
                 /\ startsWithSofa(grid[p[2]][p[1]])
                 /\ sofaTypeOfTag(grid[p[2]][p[1]]) = type})
    \div Len(getSofaCells(type, <<0, 0>>, 0))

\* C24: whatever was placed and removed, for every piece type the inventory
\* count plus the pieces of that type on the grid is the level's initial
\* inventory count
C24_InventoryPlusPlacedIsInitial ==
  gen.pc = "playing" =>
    \A type \in SofaTypes :
      home.inventory[type] + PiecesOnGrid(type) = gen.level.inventory[type]

\* C26: whatever was placed and removed, the footprints of the listed pieces
\* are together exactly the grid cells that carry a sofa tag
C26_ListedFootprintsAreTheSofaCells ==
  gen.pc = "playing" =>
    UNION {Range(getSofaCells(home.sofas[i].type, home.sofas[i].position,
                              home.sofas[i].rotation)) : i \in DOMAIN home.sofas}
      = {p \in GridCells(grid) : startsWithSofa(grid[p[2]][p[1]])}

\* the piece has a footprint cell orthogonally next to an empty cell that is
\* reachable from seed
PieceReachable(sofa, seed) ==
  \E cell \in Range(getSofaCells(sofa.type, sofa.position, sofa.rotation)) :
    \E d \in 1..Len(directions) :
      LET adjacentPos == Step(cell, directions[d])
      IN /\ isInBoundsOfLevel(adjacentPos, gen.level)
         /\ grid[adjacentPos[2]][adjacentPos[1]] = "empty"
         /\ positionKey(adjacentPos) \in findAllReachablePositions(seed, grid)

\* C25: checkConstraints(grid) is true only if the door has an empty
\* neighbour and every placed piece, taken on its own, has a footprint cell
\* next to an empty cell reachable from that neighbour; a piece surrounded by
\* walls and other pieces makes it false
C25_TrueOnlyIfEveryPieceReachable ==
  (gen.pc = "playing" /\ checkConstraints(grid, gen.level).result) =>
    /\ checkDoorAdjacentEmpty(grid, gen.level) # NoPos
    /\ \A i \in DOMAIN home.sofas :
         PieceReachable(home.sofas[i], checkDoorAdjacentEmpty(grid, gen.level))

\* the cells of g that carry the tag
CellsTagged(g, tag) == {p \in GridCells(g) : g[p[2]][p[1]] = tag}

\* C27: a click, with the placement or removal it makes, leaves every wall
\* and door cell as it was and turns no other cell into a wall or a door, so
\* the level keeps exactly one door; a placement writes only to cells that
\* were empty and a removal only to cells that carried a sofa tag
C27_ClicksKeepWallsAndDoor ==
  [][gen.pc = "playing" =>
       /\ CellsTagged(grid', "wall") = CellsTagged(grid, "wall")
       /\ CellsTagged(grid', "door") = CellsTagged(grid, "door")
       /\ Cardinality(CellsTagged(grid', "door")) = 1
       /\ \A p \in GridCells(grid) :
            grid'[p[2]][p[1]] # grid[p[2]][p[1]] =>
              /\ call'.op = "placeSofa" => grid[p[2]][p[1]] = "empty"
              /\ call'.op = "removeSofa" => startsWithSofa(grid[p[2]][p[1]])]_vars

\* a piece was removed while another one stays next to a wall
C27_Witness ==
  /\ gen.pc = "playing"
  /\ call.op = "removeSofa"
  /\ home.score > 0
  /\ CellsTagged(grid, "empty") # {}

\* the footprint of the i-th listed piece
Footprint(i) ==
  Range(getSofaCells(home.sofas[i].type, home.sofas[i].position,
                     home.sofas[i].rotation))

\* C28: placeSofa rejects a piece whose inventory count is 0 or whose
\* footprint has a cell out of bounds or not empty, and a rejected placement
\* leaves the grid, the inventory, the piece list, the next piece id and the
\* score as they were; no inventory count goes below 0 and no two listed
\* pieces share a cell
C28_RejectedPlacementChangesNothing ==
  [][(gen.pc = "playing" /\ call'.op = "placeSofa") =>
       /\ (\/ home.inventory[call'.type] = 0
           \/ \E cell \in Range(getSofaCells(call'.type, call'.position,
                                             call'.rotation)) :
                \/ ~isInBoundsOfLevel(cell, gen.level)
                \/ grid[cell[2]][cell[1]] # "empty")
            => /\ ~ret'.flag
               /\ grid' = grid
               /\ home'.inventory = home.inventory
               /\ home'.sofas = home.sofas
               /\ home'.nextSofaId = home.nextSofaId
               /\ home'.score = home.score
       /\ \A type \in SofaTypes : home'.inventory[type] >= 0
       /\ \A i, j \in DOMAIN home'.sofas :
            i # j => Footprint(i)' \cap Footprint(j)' = {}]_vars

\* a piece was refused because its inventory count had reached 0
C28_Witness ==
  /\ gen.pc = "playing"
  /\ call.op = "placeSofa"
  /\ ~ret.flag
  /\ home.inventory[call.type] = 0
  /\ home.message = <<"no more", call.type>>
  /\ home.sofas # << >>

\* a piece was refused because its footprint ran into a wall or a piece
C28_WitnessFootprint ==
  /\ gen.pc = "playing"
  /\ call.op = "placeSofa"
  /\ ~ret.flag
  /\ home.message = <<"can't place">>
  /\ home.sofas # << >>

\* C29: after the grid is initialised and after every placement and removal
\* the score is the number of grid cells that carry a sofa tag
C29_ScoreCountsSofaCells ==
  gen.pc = "playing" =>
    home.score = Cardinality({p \in GridCells(grid) : grid[p[2]][p[1]] \in SofaTags})

\* a removal left a piece of two or three cells standing
C29_Witness ==
  /\ gen.pc = "playing"
  /\ call.op = "removeSofa"
  /\ home.score >= 2

\* the empty cells of the grid outside identifyCriticalPaths(grid, door)
FillableEmptyCells ==
  {p \in GridCells(grid) :
     /\ grid[p[2]][p[1]] = "empty"
     /\ positionKey(p) \notin identifyCriticalPaths(grid, gen.level.doorPosition)}

\* C30: checkSolution opens the level-complete dialog only when
\* checkConstraints(grid) is true and at most 3 empty cells lie outside the
\* critical cells; when checkConstraints fails the critical-cell set is
\* emptied and hidden; when it fails or more than 3 such cells are left, the
\* grid, the inventory and the score stay as they were
C30_DialogOnlyForASolvedLevel ==
  [][(gen.pc = "playing" /\ call'.op = "checkSolution") =>
       /\ (home'.showSuccessDialog /\ ~home.showSuccessDialog) =>
            /\ checkConstraints(grid, gen.level).result
            /\ Cardinality(FillableEmptyCells) <= 3
       /\ ~checkConstraints(grid, gen.level).result =>
            /\ home'.criticalPathCells = {}
            /\ ~home'.showCriticalPaths
            /\ ~home'.showSuccessDialog \/ home.showSuccessDialog
       /\ (\/ ~checkConstraints(grid, gen.level).result
           \/ Cardinality(FillableEmptyCells) > 3) =>
            /\ grid' = grid
            /\ home'.inventory = home.inventory
            /\ home'.score = home.score]_vars

\* checkSolution opened the dialog over a room that holds pieces
C30_Witness ==
  /\ gen.pc = "playing"
  /\ call.op = "checkSolution"
  /\ ret.flag
  /\ home.showSuccessDialog
  /\ home.sofas # << >>

\* checkSolution found the constraints broken and left no critical cells
C30_WitnessCleared ==
  /\ gen.pc = "playing"
  /\ call.op = "checkSolution"
  /\ ~ret.flag
  /\ home.sofas # << >>
  /\ home.criticalPathCells = {}

\* checkSolution found more than 3 fillable cells
C30_WitnessMore ==
  /\ gen.pc = "playing"
  /\ call.op = "checkSolution"
  /\ home.message[1] = "more"

====
